---- MODULE Spec2Model ----
(***************************************************************************)
(* OpenRay: the connection normalizer (src/src/common.py), the tested-     *)
(* identity store (src/src/io_ops.py) and the run pipeline                 *)
(* (src/src/main.py) as state machines.                                    *)
(*                                                                         *)
(* A Python str is a sequence of one-character strings, so that parsing,   *)
(* percent-coding, base64 and JSON are computed character by character as  *)
(* the code computes them.  Python's None is the one-element sequence      *)
(* <<"None">>, which no text equals.                                       *)
(***************************************************************************)
EXTENDS Integers, Sequences, FiniteSets, TLC

(* ------------------------------------------------------------------ *)
(* Text primitives (str methods used by common.py)                     *)
(* ------------------------------------------------------------------ *)

\* The printable ASCII characters, code 32 to 126, in code order (the
\* backtick, which a TLA+ string cannot hold, is spelled out).
Ascii == <<" ","!","\"","#","$","%","&","'","(",")","*","+",",","-",".","/","0","1","2","3","4","5","6","7","8","9",":",";","<","=",">","?","@","A","B","C","D","E","F","G","H","I","J","K","L","M","N","O","P","Q","R","S","T","U","V","W","X","Y","Z","[","\\","]","^","_","<backtick>","a","b","c","d","e","f","g","h","i","j","k","l","m","n","o","p","q","r","s","t","u","v","w","x","y","z","{","|","}","~">>

\* A byte that is no printable ASCII character, once decoded to text.
OtherChar == "\\x"

\* ord(c); a character outside the table counts as code 255.
Ord(c) == IF c = OtherChar THEN 255 ELSE 31 + CHOOSE i \in 1..95 : Ascii[i] = c

\* chr(n) for one byte decoded as UTF-8 text.
Chr(n) == IF n \in 32..126 THEN Ascii[n - 31] ELSE OtherChar

NoneVal == <<"None">>

IsDigit(c) == c \in {"0","1","2","3","4","5","6","7","8","9"}
IsUpper(c) == c \in {"A","B","C","D","E","F","G","H","I","J","K","L","M","N","O","P","Q","R","S","T","U","V","W","X","Y","Z"}
IsAlpha(c) == c \in {"A","B","C","D","E","F","G","H","I","J","K","L","M","N","O","P","Q","R","S","T","U","V","W","X","Y","Z","a","b","c","d","e","f","g","h","i","j","k","l","m","n","o","p","q","r","s","t","u","v","w","x","y","z"}
IsAlnum(c) == c \in {"A","B","C","D","E","F","G","H","I","J","K","L","M","N","O","P","Q","R","S","T","U","V","W","X","Y","Z","a","b","c","d","e","f","g","h","i","j","k","l","m","n","o","p","q","r","s","t","u","v","w","x","y","z","0","1","2","3","4","5","6","7","8","9"}

\* str.lower()
lower(s) ==
  LET low(c) == IF IsUpper(c) THEN Chr(Ord(c) + 32) ELSE c
  IN [i \in 1..Len(s) |-> low(s[i])]

\* The positions of s, in order, at which the test holds.
Positions(s, Test(_)) == SelectSeq([k \in 1..Len(s) |-> k], Test)

\* The first of a sequence of positions, 0 when there is none; the last.
FirstOr0(p) == IF Len(p) = 0 THEN 0 ELSE p[1]
LastOr0(p) == IF Len(p) = 0 THEN 0 ELSE p[Len(p)]

\* s.find(c, i) for a one-character c, 1-based; 0 when c is not in s[i:].
FindFrom(s, c, i) == FirstOr0(Positions(s, LAMBDA k : k >= i /\ s[k] = c))

\* s.find(c), 1-based; 0 when absent.
find(s, c) == FirstOr0(Positions(s, LAMBDA k : s[k] = c))

\* s.rfind(c), 1-based; 0 when absent.
rfind(s, c) == LastOr0(Positions(s, LAMBDA k : s[k] = c))

\* c in s
has(s, c) == \E k \in 1..Len(s) : s[k] = c

\* s.find(sub) for a substring, 1-based; 0 when absent.
findsub(s, sub) ==
  FirstOr0(Positions(s, LAMBDA k : /\ k + Len(sub) - 1 <= Len(s)
                                   /\ \A j \in 1..Len(sub) : s[k + j - 1] = sub[j]))

\* s[i:] and s[:i] with 1-based inclusive positions.
From(s, i) == SubSeq(s, i, Len(s))
Upto(s, i) == SubSeq(s, 1, i)

\* The one or two parts of s around position i (0: no separator).
PartsAt(s, i) == IF i = 0 THEN <<s>> ELSE <<Upto(s, i - 1), From(s, i + 1)>>

\* s.split(c, 1): one or two parts.
split1(s, c) == PartsAt(s, find(s, c))

\* s.rsplit(c, 1): one or two parts.
rsplit1(s, c) == PartsAt(s, rfind(s, c))

\* The parts of s between the separator positions p.
PartsBetween(s, p) ==
  [k \in 1..(Len(p) + 1) |-> SubSeq(s, IF k = 1 THEN 1 ELSE p[k - 1] + 1,
                                       IF k = Len(p) + 1 THEN Len(s) ELSE p[k] - 1)]

\* s.split(c): every part.
split(s, c) == PartsBetween(s, Positions(s, LAMBDA k : s[k] = c))

RECURSIVE Flatten(_)
\* ''.join(parts)
Flatten(parts) ==
  IF Len(parts) = 0 THEN <<>>
  ELSE IF Len(parts) = 1 THEN parts[1]
  ELSE Flatten(SubSeq(parts, 1, Len(parts) \div 2))
       \o Flatten(SubSeq(parts, (Len(parts) \div 2) + 1, Len(parts)))

\* sep.join(parts)
join(parts, sep) ==
  Flatten([k \in 1..Len(parts) |-> IF k = 1 THEN parts[1] ELSE sep \o parts[k]])

\* s.lstrip(c) for a one-character c.
lstrip(s, c) == From(s, FirstOr0(Positions(s, LAMBDA k : s[k] # c) \o <<Len(s) + 1>>))

\* s.rstrip(c)
rstrip(s, c) == Upto(s, LastOr0(Positions(s, LAMBDA k : s[k] # c)))

\* s.strip() over the one whitespace character of the alphabet.
strip(s) == rstrip(lstrip(s, " "), " ")

\* s.replace(a, b) for one-character a and b.
replace(s, a, b) == [i \in 1..Len(s) |-> IF s[i] = a THEN b ELSE s[i]]

\* s with every occurrence of the character c removed.
remove(s, c) == SelectSeq(s, LAMBDA x : x # c)

\* Lexicographic order of two texts by code point (Python's str <).
StrLess(a, b) ==
  LET Decide(d) == IF d = 0 THEN Len(a) < Len(b) ELSE Ord(a[d]) < Ord(b[d])
  IN Decide(FirstOr0(Positions(a, LAMBDA k : k <= Len(b) /\ a[k] # b[k])))

(* ------------------------------------------------------------------ *)
(* urllib.parse, base64 and json as common.py uses them                *)
(* ------------------------------------------------------------------ *)

\* urllib.parse.uses_params (the non-empty schemes).
UsesParams == { <<"f","t","p">>, <<"h","d","l">>, <<"p","r","o","s","p","e","r","o">>, <<"h","t","t","p">>, <<"i","m","a","p">>, <<"h","t","t","p","s">>, <<"s","h","t","t","p">>, <<"r","t","s","p">>,
                <<"r","t","s","p","s">>, <<"r","t","s","p","u">>, <<"s","i","p">>, <<"s","i","p","s">>, <<"m","m","s">>, <<"s","f","t","p">>, <<"t","e","l">> }

\* _check_bracketed_host: the bracketed literals that are IPv6 addresses,
\* over the literals the inputs use.
BracketedHostOk(h) == h = <<":",":","1">>

\* urllib.parse._splitparams: the path without the ;params of its last segment.
SplitParams(url) ==
  LET Cut(i) == IF i = 0 THEN url ELSE Upto(url, i - 1)
  IN Cut(FindFrom(url, ";", rfind(url, "/") + 1))

\* urllib.parse._splitnetloc: the authority that follows // and the rest.
SplitNetloc(r) ==
  LET At(d) == [netloc |-> SubSeq(r, 3, d - 1), rest |-> From(r, d)]
  IN IF Len(r) >= 2 /\ r[1] = "/" /\ r[2] = "/"
       THEN At(FirstOr0(Positions(r, LAMBDA k : k >= 3 /\ r[k] \in {"/", "?", "#"})
                        \o <<Len(r) + 1>>))
       ELSE [netloc |-> <<>>, rest |-> r]

\* urllib.parse.urlparse(url): ok is FALSE where it raises ValueError.
urlparse(url0) ==
  LET Result(scheme, netloc, q) ==
        [ok |-> /\ has(netloc, "[") = has(netloc, "]")
                /\ has(netloc, "[") => BracketedHostOk(split1(split1(netloc, "[")[2], "]")[1]),
         scheme |-> scheme, netloc |-> netloc,
         path |-> IF scheme \in UsesParams THEN SplitParams(q[1]) ELSE q[1],
         query |-> IF Len(q) = 2 THEN q[2] ELSE <<>>]
      AfterNetloc(scheme, n) == Result(scheme, n.netloc, split1(split1(n.rest, "#")[1], "?"))
      AfterScheme(scheme, r) == AfterNetloc(scheme, SplitNetloc(r))
      WithColon(url, i) ==
        IF /\ i > 1
           /\ IsAlpha(url[1])
           /\ \A k \in 1..(i - 1) : IsAlnum(url[k]) \/ url[k] \in {"+", "-", "."}
          THEN AfterScheme(lower(Upto(url, i - 1)), From(url, i + 1))
          ELSE AfterScheme(<<>>, url)
      Stripped(url) == WithColon(url, find(url, ":"))
  IN Stripped(lstrip(url0, " "))

HexDigits == <<"0","1","2","3","4","5","6","7","8","9","A","B","C","D","E","F">>

IsHex(c) == c \in {"0","1","2","3","4","5","6","7","8","9","A","B","C","D","E","F","a","b","c","d","e","f"}

HexVal(c) == IF IsDigit(c) THEN Ord(c) - 48 ELSE (Ord(c) % 32) + 9

\* urllib.parse.unquote: every %XY with hex digits X, Y becomes the character
\* of that code; any other % stays.  (A hex digit is no %, so an escape never
\* starts inside another.)
unquote(s) ==
  LET esc(k) == k >= 1 /\ k + 2 <= Len(s) /\ s[k] = "%" /\ IsHex(s[k + 1]) /\ IsHex(s[k + 2])
      Code(a, b) == <<Chr(16 * a + b)>>
      piece(k) == IF esc(k) THEN Code(HexVal(s[k + 1]), HexVal(s[k + 2]))
                  ELSE IF esc(k - 1) \/ esc(k - 2) THEN <<>>
                  ELSE <<s[k]>>
  IN Flatten([k \in 1..Len(s) |-> piece(k)])

\* urllib.parse.quote(s, safe): letters, digits and _.-~ and the safe
\* characters stay, every other character becomes %XX (upper-case hex).
quote(s, safe) ==
  LET Hex(n) == <<"%", HexDigits[(n \div 16) + 1], HexDigits[(n % 16) + 1]>>
      piece(c) == IF IsAlnum(c) \/ c \in {"_", ".", "-", "~"} \/ c \in safe
                    THEN <<c>> ELSE Hex(Ord(c))
  IN Flatten([k \in 1..Len(s) |-> piece(s[k])])

\* urllib.parse.quote_plus(s, safe=''), the quote_via of urlencode.
quote_plus(s) == replace(quote(s, {" "}), " ", "+")

\* urllib.parse.parse_qsl(qs) with the defaults (blank values dropped,
\* separator &): the (name, value) pairs in order.
parse_qsl(qs) ==
  LET Pair(nv) == <<unquote(replace(nv[1], "+", " ")), unquote(replace(nv[2], "+", " "))>>
      Kept(items) == SelectSeq(items, LAMBDA nv : Len(nv) = 2 /\ Len(nv[2]) > 0)
      Pairs(kept) == [i \in 1..Len(kept) |-> Pair(kept[i])]
      Items(args) == [i \in 1..Len(args) |-> split1(args[i], "=")]
  IN IF Len(qs) = 0 THEN <<>> ELSE Pairs(Kept(Items(split(qs, "&"))))

\* The second components of a sequence of pairs.
Seconds(sel) == [i \in 1..Len(sel) |-> sel[i][2]]

\* parse_qs(qs)[name]: the values of name in order (empty: name not in it).
QsValues(pairs, name) == Seconds(SelectSeq(pairs, LAMBDA p : p[1] = name))

\* The base64 alphabet.
B64 == <<"A","B","C","D","E","F","G","H","I","J","K","L","M","N","O","P","Q","R","S","T","U","V","W","X","Y","Z","a","b","c","d","e","f","g","h","i","j","k","l","m","n","o","p","q","r","s","t","u","v","w","x","y","z","0","1","2","3","4","5","6","7","8","9","+","/">>

\* The value of a character of the base64 alphabet, 64 for any other.
B64Val(c) ==
  (CHOOSE n \in 1..65 : IF n = 65 THEN \A m \in 1..64 : B64[m] # c ELSE B64[n] = c) - 1

\* s.encode('utf-8') over the ASCII alphabet: one byte per character.
encode(s) == [i \in 1..Len(s) |-> Ord(s[i])]

\* b.decode('utf-8', errors='ignore'): bytes of 128 and more are dropped.
decode(bs) ==
  LET Text(kept) == [i \in 1..Len(kept) |-> Chr(kept[i])]
  IN Text(SelectSeq(bs, LAMBDA b : b < 128))

\* base64.b64encode(bs): the k-th output character, from the group of three
\* bytes it belongs to; a group cut short is padded with =.
b64encodeBytes(bs) ==
  LET byte(i) == IF i <= Len(bs) THEN bs[i] ELSE 0
      Sextet(g, j) == IF j = 0 THEN byte(g + 1) \div 4
                      ELSE IF j = 1 THEN (byte(g + 1) % 4) * 16 + (byte(g + 2) \div 16)
                      ELSE IF j = 2 THEN (byte(g + 2) % 16) * 4 + (byte(g + 3) \div 64)
                      ELSE byte(g + 3) % 64
      ch(g, j) == IF g + j > Len(bs) THEN "=" ELSE B64[Sextet(g, j) + 1]
  IN [k \in 1..(4 * ((Len(bs) + 2) \div 3)) |-> ch(3 * ((k - 1) \div 4), (k - 1) % 4)]

\* base64.b64encode(s.encode('utf-8')).decode('ascii')
b64encode(s) == b64encodeBytes(encode(s))

\* base64.b64decode(s, validate=False), that is binascii.a2b_base64: characters
\* outside the alphabet are skipped; a = ends the input when it completes a
\* group (after three data characters, or after two and another =); every
\* four data characters give three bytes, three give two, two give one.  ok
\* is FALSE where it raises (the data ends inside a group with no such =).
b64decode(s) ==
  LET byte(d, g, r) == IF r = 0 THEN d[g + 1] * 4 + (d[g + 2] \div 16)
                       ELSE IF r = 1 THEN (d[g + 2] % 16) * 16 + (d[g + 3] \div 4)
                       ELSE (d[g + 3] % 4) * 64 + d[g + 4]
      Bytes(d, n) == [k \in 1..n |-> byte(d, 4 * ((k - 1) \div 3), (k - 1) % 3)]
      Decoded(d, stopped) ==
        [ok |-> stopped \/ Len(d) % 4 = 0,
         bytes |-> Bytes(d, 3 * (Len(d) \div 4) + (IF Len(d) % 4 = 0 THEN 0 ELSE (Len(d) % 4) - 1))]
      Values(data, stopped) == Decoded([i \in 1..Len(data) |-> B64Val(data[i])], stopped)
      Cut(f, stop) ==
        Values(SelectSeq(IF stop = 0 THEN f ELSE SubSeq(f, 1, stop - 1), LAMBDA c : c # "="),
               stop # 0)
      quad(f, i) == Len(SelectSeq(SubSeq(f, 1, i - 1), LAMBDA c : c # "=")) % 4
      Filtered(f) ==
        Cut(f, FirstOr0(Positions(f, LAMBDA i :
              /\ f[i] = "="
              /\ \/ quad(f, i) = 3
                 \/ quad(f, i) = 2 /\ i > 1 /\ f[i - 1] = "=")))
  IN Filtered(SelectSeq(s, LAMBDA c : B64Val(c) < 64 \/ c = "="))

\* common.safe_b64decode_to_bytes: ok is FALSE where it returns None.
safe_b64decode_to_bytes(s) ==
  LET Padded(compact) ==
        b64decode(compact \o [k \in 1..((4 - (Len(compact) % 4)) % 4) |-> "="])
  IN IF Len(s) = 0 THEN [ok |-> FALSE, bytes |-> <<>>]
     ELSE Padded(replace(replace(remove(s, " "), "-", "+"), "_", "/"))

\* A JSON value as json.loads gives it: t is "s" (a str), "n" (an int, v its
\* decimal digits) or "none" (the key is absent: obj.get gives None).
JStr(v) == [t |-> "s", v |-> v]
JNum(v) == [t |-> "n", v |-> v]
JNone == [t |-> "none", v |-> <<>>]

JsonFail == [ok |-> FALSE, members |-> <<>>]

RECURSIVE JsonMembers(_, _, _)
\* The members of a flat JSON object from position i (the character after
\* "{" or after a comma): a "key":value pair, value a string without escapes
\* or a non-negative integer, then a comma or the closing brace, which must
\* end the text.
JsonMembers(t, i, acc) ==
  LET After(e, member) ==
        IF e > Len(t) THEN JsonFail
        ELSE IF t[e] = "," THEN JsonMembers(t, e + 1, Append(acc, member))
        ELSE IF t[e] = "}" /\ e = Len(t) THEN [ok |-> TRUE, members |-> Append(acc, member)]
        ELSE JsonFail
      StrValue(key, v, k) ==
        IF k = 0 \/ has(SubSeq(t, v + 1, k - 1), "\\") THEN JsonFail
        ELSE After(k + 1, <<key, JStr(SubSeq(t, v + 1, k - 1))>>)
      NumValue(key, v, e) ==
        IF e = v \/ (t[v] = "0" /\ e > v + 1) THEN JsonFail
        ELSE After(e, <<key, JNum(SubSeq(t, v, e - 1))>>)
      Value(key, v) ==
        IF v > Len(t) THEN JsonFail
        ELSE IF t[v] = "\"" THEN StrValue(key, v, FindFrom(t, "\"", v + 1))
        ELSE NumValue(key, v, FirstOr0(Positions(t, LAMBDA k : k >= v /\ ~IsDigit(t[k]))
                                       \o <<Len(t) + 1>>))
      Key(j) ==
        IF j = 0 \/ j + 1 > Len(t) THEN JsonFail
        ELSE IF t[j + 1] # ":" \/ has(SubSeq(t, i + 1, j - 1), "\\") THEN JsonFail
        ELSE Value(SubSeq(t, i + 1, j - 1), j + 2)
  IN IF i > Len(t) THEN JsonFail
     ELSE IF t[i] # "\"" THEN JsonFail
     ELSE Key(FindFrom(t, "\"", i + 1))

\* json.loads(text) for a flat object; ok is FALSE where it raises.
json_loads(t) ==
  IF Len(t) < 2 THEN JsonFail
  ELSE IF t[1] # "{" THEN JsonFail
  ELSE IF Len(t) = 2 /\ t[2] = "}" THEN [ok |-> TRUE, members |-> <<>>]
  ELSE JsonMembers(t, 2, <<>>)

\* obj.get(key): the last member of that key, None when there is none.
JGet(members, key) ==
  LET Last(sel) == IF Len(sel) = 0 THEN JNone ELSE sel[Len(sel)][2]
  IN Last(SelectSeq(members, LAMBDA m : m[1] = key))

\* Python truth of a JSON value.
Truthy(x) ==
  IF x.t = "none" THEN FALSE
  ELSE IF x.t = "s" THEN Len(x.v) > 0
  ELSE x.v # <<"0">>

\* a or b
PyOr(a, b) == IF Truthy(a) THEN a ELSE b

RECURSIVE SortedTexts(_)
\* sorted(S) for a set of texts.
SortedTexts(S) ==
  LET Rest(m) == <<m>> \o SortedTexts(S \ {m})
  IN IF S = {} THEN <<>>
     ELSE Rest(CHOOSE x \in S : \A y \in S \ {x} : StrLess(x, y))

\* json.dumps(d, separators=(',', ':'), ensure_ascii=False, sort_keys=True)
\* for a dict d of str values.
json_dumps(d) ==
  LET Item(k) == <<"\"">> \o k \o <<"\"", ":", "\"">> \o d[k] \o <<"\"">>
      Items(keys) == [i \in 1..Len(keys) |-> Item(keys[i])]
  IN <<"{">> \o join(Items(SortedTexts(DOMAIN d)), <<",">>) \o <<"}">>

(* ------------------------------------------------------------------ *)
(* common.py: the connection normalizer                                *)
(* ------------------------------------------------------------------ *)

\* sha1_hex(text): SHA-1 taken as collision-free, so the digest of a text is
\* the text under a tag; two digests are equal exactly when the texts are.
sha1_hex(text) == <<"sha1">> \o text

\* Truth of a str-or-None value (None and '' are false).
StrTruthy(s) == s # NoneVal /\ Len(s) > 0

\* normalize_value of _normalize_vmess
normalize_value(x) ==
  IF x.t = "none" \/ (x.t = "s" /\ Len(x.v) = 0) THEN NoneVal ELSE strip(x.v)

\* canonicalize_tls of _normalize_vmess
canonicalize_tls(value) ==
  LET Low(low) == IF low \in {<<"n","o","n","e">>, <<"d","i","s","a","b","l","e">>, <<"d","i","s","a","b","l","e","d">>, <<"o","f","f">>, <<"f","a","l","s","e">>, <<"0">>}
                    THEN NoneVal ELSE low
  IN IF ~StrTruthy(value) THEN NoneVal ELSE Low(lower(value))

\* a or b for str-or-None values
OrDefault(a, b) == IF StrTruthy(a) THEN a ELSE b

\* A dict with the one item key: value when value is true, the empty dict
\* otherwise.
IfSet(key, value) == IF StrTruthy(value) THEN key :> value ELSE <<>>

\* The canonical vmess URI of a decoded payload (lines 130 to 192).
VmessCanonical(uri, obj) ==
  LET Scy(scy) == IF scy \in {<<"a","u","t","o">>, <<"a","e","s","-","1","2","8","-","g","c","m">>} THEN <<>> ELSE <<"s","c","y">> :> scy
      Field(k) == normalize_value(JGet(obj, k))
      Build(add, port, id_val) ==
        IF ~StrTruthy(add) \/ ~StrTruthy(port) \/ ~StrTruthy(id_val)
          THEN [ok |-> FALSE, out |-> uri]
          ELSE [ok |-> TRUE,
                out |-> <<"v","m","e","s","s",":","/","/">> \o b64encode(json_dumps(
                  (<<"v">> :> <<"2">>) @@ (<<"a","d","d">> :> add) @@ (<<"p","o","r","t">> :> port) @@ (<<"i","d">> :> id_val)
                  @@ (<<"a","i","d">> :> OrDefault(Field(<<"a","i","d">>), <<"0">>))
                  @@ (<<"n","e","t">> :> OrDefault(Field(<<"n","e","t">>), <<"t","c","p">>))
                  @@ (<<"t","y","p","e">> :> OrDefault(Field(<<"t","y","p","e">>), <<"n","o","n","e">>))
                  @@ Scy(OrDefault(Field(<<"s","c","y">>), <<"a","u","t","o">>))
                  @@ IfSet(<<"h","o","s","t">>, Field(<<"h","o","s","t">>)) @@ IfSet(<<"p","a","t","h">>, Field(<<"p","a","t","h">>))
                  @@ IfSet(<<"t","l","s">>, canonicalize_tls(Field(<<"t","l","s">>)))
                  @@ IfSet(<<"s","n","i">>, Field(<<"s","n","i">>)) @@ IfSet(<<"a","l","p","n">>, Field(<<"a","l","p","n">>))
                  @@ IfSet(<<"f","p">>, Field(<<"f","p">>))))]
  IN Build(normalize_value(PyOr(JGet(obj, <<"a","d","d">>), JGet(obj, <<"a","d","d","r","e","s","s">>))),
           normalize_value(PyOr(JGet(obj, <<"p","o","r","t">>), JGet(obj, <<"p","o","r","t","N","u","m","b","e","r">>))),
           Field(<<"i","d">>))

\* _normalize_vmess(uri, parsed): ok tells whether the canonical form was
\* built; otherwise out is uri as given.
_normalize_vmess(uri, parsed) ==
  LET Loaded(obj) == IF ~obj.ok THEN [ok |-> FALSE, out |-> uri]
                     ELSE VmessCanonical(uri, obj.members)
      Text(text) == Loaded(json_loads(IF Len(text) = 0 THEN <<"{", "}">> ELSE text))
      Decoded(b) == IF ~b.ok \/ Len(b.bytes) = 0 THEN [ok |-> FALSE, out |-> uri]
                    ELSE Text(decode(b.bytes))
      Payload(payload_b64) == IF Len(payload_b64) = 0 THEN [ok |-> FALSE, out |-> uri]
                              ELSE Decoded(safe_b64decode_to_bytes(payload_b64))
  IN Payload(IF Len(parsed.netloc) > 0 THEN parsed.netloc ELSE lstrip(parsed.path, "/"))

\* The parameter names of a query.
QsKeys(pairs) == {pairs[i][1] : i \in 1..Len(pairs)}

\* The first value of each listed parameter that the query carries.
ListedParams(pairs, connection_params) ==
  LET First(vals) == IF Len(vals) = 0 THEN <<>> ELSE vals[1]
      value == [p \in connection_params |-> First(QsValues(pairs, p))]
  IN [p \in {x \in connection_params : Len(value[x]) > 0} |-> value[p]]

\* '&'.join(f'{k}={v}' for k, v in sorted(d.items()))
SortedQuery(d) ==
  LET Items(keys) == [i \in 1..Len(keys) |-> keys[i] \o <<"=">> \o d[keys[i]]]
  IN join(Items(SortedTexts(DOMAIN d)), <<"&">>)

\* result, with ?query_string appended when the query string is not empty.
WithQuery(result, query_string) ==
  IF Len(query_string) > 0 THEN result \o <<"?">> \o query_string ELSE result

\* The dict d without the keys in the set drop.
Without(d, drop) == [k \in DOMAIN d \ drop |-> d[k]]

\* d.get(k, '')
GetOrEmpty(d, k) == IF k \in DOMAIN d THEN d[k] ELSE <<>>

VlessConnectionParams ==
  {<<"s","e","c","u","r","i","t","y">>, <<"e","n","c","r","y","p","t","i","o","n">>, <<"t","y","p","e">>, <<"p","a","t","h">>, <<"h","o","s","t">>, <<"s","e","r","v","i","c","e","N","a","m","e">>, <<"m","o","d","e">>,
   <<"h","e","a","d","e","r","T","y","p","e">>, <<"s","n","i">>, <<"a","l","p","n">>, <<"f","p">>, <<"p","b","k">>, <<"s","i","d">>, <<"f","l","o","w">>}

\* _normalize_vless(uri, parsed)
_normalize_vless(uri, parsed) ==
  LET Rebuilt(normalized_params) ==
        [ok |-> TRUE,
         out |-> WithQuery(<<"v","l","e","s","s",":","/","/">> \o GetOrEmpty(normalized_params, <<"i","d">>) \o <<"@">>
                             \o GetOrEmpty(normalized_params, <<"h","o","s","t">>) \o <<":">>
                             \o GetOrEmpty(normalized_params, <<"p","o","r","t">>),
                           SortedQuery(Without(normalized_params, {<<"h","o","s","t">>, <<"p","o","r","t">>, <<"i","d">>})))]
      HostPort(host_port, hp) ==
        IF has(host_port, ":") THEN (<<"h","o","s","t">> :> hp[1]) @@ (<<"p","o","r","t">> :> hp[2]) ELSE <<>>
      Parts(path_parts) ==
        IF Len(path_parts) # 2 THEN [ok |-> FALSE, out |-> uri]
        ELSE Rebuilt(ListedParams(parse_qsl(parsed.query), VlessConnectionParams)
                     @@ IfSet(<<"i","d">>, path_parts[1])
                     @@ HostPort(path_parts[2], rsplit1(path_parts[2], ":")))
  IN Parts(split1(lstrip(parsed.path, "/"), "@"))

TrojanConnectionParams ==
  {<<"s","e","c","u","r","i","t","y">>, <<"t","y","p","e">>, <<"p","a","t","h">>, <<"h","o","s","t">>, <<"s","n","i">>, <<"a","l","p","n">>, <<"f","p">>, <<"p","b","k">>, <<"s","i","d">>, <<"f","l","o","w">>}

\* _normalize_trojan without the allow-list: every query parameter is kept.
NormalizeTrojanKeepingAll(uri, parsed) ==
  LET Rebuilt(password, hp) ==
        [ok |-> TRUE,
         out |-> WithQuery(<<"t","r","o","j","a","n",":","/","/">> \o quote(password, {}) \o <<"@">> \o hp[1] \o <<":">> \o hp[2],
                           SortedQuery(ListedParams(parse_qsl(parsed.query),
                                                    QsKeys(parse_qsl(parsed.query)))))]
      Split(password, host_port) ==
        IF Len(password) = 0 THEN [ok |-> FALSE, out |-> uri]
        ELSE IF ~has(host_port, ":") THEN [ok |-> FALSE, out |-> uri]
        ELSE Rebuilt(password, rsplit1(host_port, ":"))
      Parts(parts) ==
        IF Len(parts) # 2 THEN [ok |-> FALSE, out |-> uri]
        ELSE Split(unquote(parts[1]), parts[2])
  IN Parts(split1(IF Len(parsed.netloc) > 0 THEN parsed.netloc ELSE lstrip(parsed.path, "/"),
                  "@"))


\* _normalize_trojan(uri, parsed)
_normalize_trojan(uri, parsed) ==
  LET Rebuilt(password, hp) ==
        [ok |-> TRUE,
         out |-> WithQuery(<<"t","r","o","j","a","n",":","/","/">> \o quote(password, {}) \o <<"@">> \o hp[1] \o <<":">> \o hp[2],
                           SortedQuery(ListedParams(parse_qsl(parsed.query),
                                                    TrojanConnectionParams)))]
      Split(password, host_port) ==
        IF Len(password) = 0 THEN [ok |-> FALSE, out |-> uri]
        ELSE IF ~has(host_port, ":") THEN [ok |-> FALSE, out |-> uri]
        ELSE Rebuilt(password, rsplit1(host_port, ":"))
      Parts(parts) ==
        IF Len(parts) # 2 THEN [ok |-> FALSE, out |-> uri]
        ELSE Split(unquote(parts[1]), parts[2])
  IN Parts(split1(IF Len(parsed.netloc) > 0 THEN parsed.netloc ELSE lstrip(parsed.path, "/"),
                  "@"))

\* _normalize_ss(uri, parsed, protocol)
_normalize_ss(uri, parsed, protocol) ==
  LET Rebuilt(mp, hp) ==
        [ok |-> TRUE,
         out |-> WithQuery(<<"s","s",":","/","/">> \o b64encode(mp[1] \o <<":">> \o mp[2] \o <<"@">>
                                              \o hp[1] \o <<":">> \o hp[2]),
                           SortedQuery(ListedParams(parse_qsl(parsed.query),
                                                    {<<"p","l","u","g","i","n">>, <<"m","o","d","e">>})))]
      Split(mh) ==
        IF Len(mh) = 2 /\ has(mh[1], ":") /\ has(mh[2], ":")
          THEN Rebuilt(split1(mh[1], ":"), rsplit1(mh[2], ":"))
          ELSE [ok |-> FALSE, out |-> uri]
      Decoded(payload, b) ==
        Split(rsplit1(IF b.ok /\ Len(b.bytes) > 0 THEN decode(b.bytes) ELSE payload, "@"))
      Payload(payload) == Decoded(payload, safe_b64decode_to_bytes(payload))
  IN IF protocol = <<"s","s","r">> THEN [ok |-> FALSE, out |-> uri]
     ELSE Payload(lstrip(parsed.path, "/"))

\* repr(s) of a str.
repr(s) ==
  LET Quoted(q) ==
        <<q>> \o Flatten([i \in 1..Len(s) |-> IF s[i] = "\\" THEN <<"\\", "\\">>
                                               ELSE IF s[i] = q THEN <<"\\", q>>
                                               ELSE <<s[i]>>]) \o <<q>>
  IN Quoted(IF has(s, "'") /\ ~has(s, "\"") THEN "\"" ELSE "'")

\* str(v) where v is the one value of a parameter or the list of its values.
StrOfValues(vals) ==
  IF Len(vals) = 1 THEN vals[1]
  ELSE <<"[">> \o join([i \in 1..Len(vals) |-> repr(vals[i])], <<",", " ">>) \o <<"]">>

\* _normalize_generic(uri, parsed, protocol)
_normalize_generic(uri, parsed, protocol) ==
  LET Item(pairs, k) == quote_plus(k) \o <<"=">> \o quote_plus(StrOfValues(QsValues(pairs, k)))
      Items(pairs, keys) == [i \in 1..Len(keys) |-> Item(pairs, keys[i])]
      Query(pairs) ==
        join(Items(pairs, SortedTexts(QsKeys(pairs))), <<"&">>)
  IN [ok |-> TRUE,
      out |-> WithQuery(protocol \o <<":","/","/">> \o parsed.netloc \o parsed.path,
                        Query(parse_qsl(parsed.query)))]

\* normalize_proxy_uri(uri) with the return it took: "early" (line 74),
\* "raised" (urlparse raised, line 103), "noscheme" (line 86), "fallback" (the
\* scheme's normalizer gave its argument back) or "canonical".
NormalizeTrace(uri) ==
  LET Done(r) == [how |-> IF r.ok THEN "canonical" ELSE "fallback", out |-> r.out]
      Dispatch(base_uri, parsed, protocol) ==
        Done(IF protocol = <<"v","m","e","s","s">> THEN _normalize_vmess(base_uri, parsed)
             ELSE IF protocol = <<"v","l","e","s","s">> THEN _normalize_vless(base_uri, parsed)
             ELSE IF protocol = <<"t","r","o","j","a","n">> THEN _normalize_trojan(base_uri, parsed)
             ELSE IF protocol \in {<<"s","s">>, <<"s","s","r">>} THEN _normalize_ss(base_uri, parsed, protocol)
             ELSE _normalize_generic(base_uri, parsed, protocol))
      Parsed(base_uri, parsed) ==
        IF ~parsed.ok THEN [how |-> "raised", out |-> uri]
        ELSE IF Len(parsed.scheme) = 0 THEN [how |-> "noscheme", out |-> uri]
        ELSE Dispatch(base_uri, parsed, parsed.scheme)
      Base(base_uri) == Parsed(base_uri, urlparse(base_uri))
  IN IF Len(uri) = 0 \/ findsub(uri, <<":","/","/">>) = 0 THEN [how |-> "early", out |-> uri]
     ELSE Base(split1(uri, "#")[1])

normalize_proxy_uri(uri) == NormalizeTrace(uri).out

get_proxy_connection_hash(uri) == sha1_hex(normalize_proxy_uri(uri))

\* get_openray_dedup_key keeping the query string of a vless URI.
DedupKeyWithQuery(uri) ==
  LET Parsed(base_uri, parsed) ==
        IF ~parsed.ok THEN <<"r","a","w","|">> \o strip(uri)
        ELSE IF parsed.scheme \in {<<"v","m","e","s","s">>, <<"t","r","o","j","a","n">>}
          THEN parsed.scheme \o <<"|">> \o normalize_proxy_uri(uri)
        ELSE IF parsed.scheme = <<"v","l","e","s","s">>
          THEN <<"v","l","e","s","s","|">> \o remove(From(base_uri, findsub(base_uri, <<":","/","/">>) + 3), "/")
        ELSE <<"r","a","w","|">> \o base_uri
      Base(base_uri) ==
        IF findsub(base_uri, <<":","/","/">>) = 0 THEN <<"r","a","w","|">> \o base_uri
        ELSE Parsed(base_uri, urlparse(base_uri))
  IN IF Len(uri) = 0 THEN <<>> ELSE Base(strip(split1(uri, "#")[1]))

\* get_openray_dedup_key(uri)
get_openray_dedup_key(uri) ==
  LET Parsed(base_uri, parsed) ==
        IF ~parsed.ok THEN <<"r","a","w","|">> \o strip(uri)
        ELSE IF parsed.scheme \in {<<"v","m","e","s","s">>, <<"t","r","o","j","a","n">>}
          THEN parsed.scheme \o <<"|">> \o normalize_proxy_uri(uri)
        ELSE IF parsed.scheme = <<"v","l","e","s","s">>
          THEN <<"v","l","e","s","s","|">> \o remove(split1(From(base_uri, findsub(base_uri, <<":","/","/">>) + 3), "?")[1], "/")
        ELSE <<"r","a","w","|">> \o base_uri
      Base(base_uri) ==
        IF findsub(base_uri, <<":","/","/">>) = 0 THEN <<"r","a","w","|">> \o base_uri
        ELSE Parsed(base_uri, urlparse(base_uri))
  IN IF Len(uri) = 0 THEN <<>> ELSE Base(strip(split1(uri, "#")[1]))

(* ------------------------------------------------------------------ *)
(* common.py: the V2RayN-style connection key                          *)
(* ------------------------------------------------------------------ *)

\* '|'.join(key_parts) where a part is a str, or NoneVal for a value that is
\* not a str (join raises TypeError and the caller returns invalid).
JoinParts(key_parts, invalid) ==
  IF \E i \in 1..Len(key_parts) : key_parts[i] = NoneVal THEN invalid
  ELSE join(key_parts, <<"|">>)

\* _get_vmess_v2rayn_key(parsed)
_get_vmess_v2rayn_key(parsed) ==
  LET Get(obj, k, default) ==
        IF JGet(obj, k).t = "none" THEN default
        ELSE IF JGet(obj, k).t = "s" THEN JGet(obj, k).v ELSE NoneVal
      Str(obj, k, default) == IF JGet(obj, k).t = "none" THEN default ELSE JGet(obj, k).v
      Key(obj) ==
        JoinParts(<<Get(obj, <<"a","d","d">>, <<>>), Str(obj, <<"p","o","r","t">>, <<>>), Get(obj, <<"i","d">>, <<>>),
                    Get(obj, <<"n","e","t">>, <<"t","c","p">>), Get(obj, <<"t","y","p","e">>, <<>>), Get(obj, <<"p","a","t","h">>, <<>>),
                    Get(obj, <<"h","o","s","t">>, <<>>), Str(obj, <<"a","i","d">>, <<"0">>), Get(obj, <<"s","c","y">>, <<>>),
                    Get(obj, <<"s","e","c","u","r","i","t","y">>, <<>>), Get(obj, <<"s","k","i","p","-","c","e","r","t","-","v","e","r","i","f","y">>, <<>>),
                    Get(obj, <<"s","n","i">>, <<>>), Get(obj, <<"t","l","s">>, <<>>)>>, <<"i","n","v","a","l","i","d","_","v","m","e","s","s">>)
      Loaded(obj) == IF ~obj.ok THEN <<"i","n","v","a","l","i","d","_","v","m","e","s","s">> ELSE Key(obj.members)
      Text(text) == Loaded(json_loads(IF Len(text) = 0 THEN <<"{", "}">> ELSE text))
      Decoded(b) == IF ~b.ok \/ Len(b.bytes) = 0 THEN <<"i","n","v","a","l","i","d","_","v","m","e","s","s">> ELSE Text(decode(b.bytes))
  IN IF Len(parsed.netloc) = 0 THEN <<"i","n","v","a","l","i","d","_","v","m","e","s","s">>
     ELSE Decoded(safe_b64decode_to_bytes(parsed.netloc))

\* query_params.get(name, [default])[0]
QsFirst(pairs, name, default) ==
  IF Len(QsValues(pairs, name)) = 0 THEN default ELSE QsValues(pairs, name)[1]

\* _get_vless_v2rayn_key(parsed)
_get_vless_v2rayn_key(parsed) ==
  LET Key(uuid, hp, q) ==
        join(<<hp[1], hp[2], uuid, QsFirst(q, <<"t","y","p","e">>, <<"t","c","p">>), QsFirst(q, <<"p","a","t","h">>, <<>>),
               QsFirst(q, <<"h","o","s","t">>, <<>>), QsFirst(q, <<"s","e","c","u","r","i","t","y">>, <<>>),
               QsFirst(q, <<"e","n","c","r","y","p","t","i","o","n">>, <<>>), QsFirst(q, <<"s","n","i">>, <<>>),
               QsFirst(q, <<"a","l","p","n">>, <<>>), QsFirst(q, <<"f","l","o","w">>, <<>>)>>, <<"|">>)
      Split(parts) ==
        IF ~has(parts[2], ":") THEN <<"i","n","v","a","l","i","d","_","v","l","e","s","s">>
        ELSE Key(parts[1], rsplit1(parts[2], ":"), parse_qsl(parsed.query))
  IN IF ~has(parsed.netloc, "@") THEN <<"i","n","v","a","l","i","d","_","v","l","e","s","s">>
     ELSE Split(split1(parsed.netloc, "@"))

\* _get_trojan_v2rayn_key(parsed)
_get_trojan_v2rayn_key(parsed) ==
  LET Key(password, hp, q) ==
        join(<<hp[1], hp[2], password, QsFirst(q, <<"t","y","p","e">>, <<"t","c","p">>), QsFirst(q, <<"p","a","t","h">>, <<>>),
               QsFirst(q, <<"h","o","s","t">>, <<>>), QsFirst(q, <<"s","e","c","u","r","i","t","y">>, <<>>),
               QsFirst(q, <<"s","n","i">>, <<>>), QsFirst(q, <<"a","l","p","n">>, <<>>),
               QsFirst(q, <<"f","l","o","w">>, <<>>)>>, <<"|">>)
      Split(path_parts) ==
        IF Len(path_parts) # 2 THEN <<"i","n","v","a","l","i","d","_","t","r","o","j","a","n">>
        ELSE IF ~has(path_parts[2], ":") THEN <<"i","n","v","a","l","i","d","_","t","r","o","j","a","n">>
        ELSE Key(path_parts[1], rsplit1(path_parts[2], ":"), parse_qsl(parsed.query))
  IN Split(split1(lstrip(parsed.path, "/"), "@"))

\* get_v2rayn_connection_key(uri)
get_v2rayn_connection_key(uri) ==
  LET Dispatch(base_uri, parsed, protocol) ==
        IF protocol = <<"v","m","e","s","s">> THEN _get_vmess_v2rayn_key(parsed)
        ELSE IF protocol = <<"v","l","e","s","s">> THEN _get_vless_v2rayn_key(parsed)
        ELSE IF protocol = <<"t","r","o","j","a","n">> THEN _get_trojan_v2rayn_key(parsed)
        ELSE base_uri
      Parsed(base_uri, parsed) ==
        IF ~parsed.ok THEN uri ELSE Dispatch(base_uri, parsed, lower(parsed.scheme))
      Base(base_uri) == Parsed(base_uri, urlparse(base_uri))
  IN IF Len(uri) = 0 \/ findsub(uri, <<":","/","/">>) = 0 THEN uri
     ELSE Base(split1(uri, "#")[1])

(* ------------------------------------------------------------------ *)
(* io_ops.py: the tested-identity store                                *)
(* ------------------------------------------------------------------ *)

\* A file of the store is named by its directory and its segment number:
\* <<d, 0>> is d/tested.txt and <<d, i>> is d/tested_i.txt; the binary sibling
\* (name + '.bin') has the same name in the other mapping.  A text file is the
\* sequence of its lines, a binary file the sequence of its bytes; a file
\* exists when its name is in the mapping's domain.

SeqRange(s) == {s[i] : i \in 1..Len(s)}

MaxOf(S) == CHOOSE x \in S : \A y \in S : y <= x

\* The text file size at which a segment is full: 50 MB in the code, counted
\* here in lines of 41 bytes (a hash of 40 characters and the line end).
max_size_lines == 3

\* The bytes of one binary entry, f.read(28), and of its hash, '20s'; the
\* timestamp, 'Q', has the bytes before the hash.
entry_size == 28

hash_size == 20

RECURSIVE BigEndian(_)
\* The unsigned integer that bytes spell, most significant byte first.
BigEndian(bytes) ==
  IF Len(bytes) = 0 THEN 0
  ELSE 256 * BigEndian(SubSeq(bytes, 1, Len(bytes) - 1)) + bytes[Len(bytes)]

RECURSIVE Base256(_, _)
\* The k bytes that spell n, most significant byte first.
Base256(n, k) == IF k = 0 THEN <<>> ELSE Base256(n \div 256, k - 1) \o <<n % 256>>

\* struct.pack('>Q20s', timestamp, hash_bytes): the timestamp in eight bytes,
\* then the hash bytes cut or zero-padded to twenty.
struct_pack(timestamp, hash_bytes) ==
  Base256(timestamp, entry_size - hash_size)
  \o [i \in 1..hash_size |-> IF i <= Len(hash_bytes) THEN hash_bytes[i] ELSE 0]

\* struct.unpack('>Q20s', entry).  A timestamp of 2^31 or more, which is
\* later than every time of the clock, is given as 2^31 - 1.
struct_unpack(entry) ==
  LET High(bytes) == SubSeq(bytes, 1, Len(bytes) - 4)
      Low(bytes) == SubSeq(bytes, Len(bytes) - 3, Len(bytes))
      Value(bytes) == IF (\E i \in 1..Len(High(bytes)) : High(bytes)[i] # 0) \/ Low(bytes)[1] >= 128
                        THEN 2147483647 ELSE BigEndian(Low(bytes))
  IN [timestamp |-> Value(SubSeq(entry, 1, entry_size - hash_size)),
      hash_bytes |-> SubSeq(entry, entry_size - hash_size + 1, entry_size)]

\* The entries that the read loop (f.read(28) until nothing is left) takes
\* from a binary file: the whole 28-byte chunks; a shorter last chunk is
\* skipped.
ReadEntries(bytes) ==
  [k \in 1..(Len(bytes) \div entry_size) |->
     SubSeq(bytes, entry_size * (k - 1) + 1, entry_size * k)]

\* A hash of 40 hexadecimal characters: two characters twenty times.
HashText(xy) == Flatten([i \in 1..hash_size |-> xy])

\* What the calls of the operating system do in one call of the store:
\* reading a binary file of unreadable raises after read entries, and
\* write_ok tells whether opening a file for writing succeeds.
NoFault == [unreadable |-> {}, read |-> 0, write_ok |-> TRUE]

\* STATE_DIR without the override of main_for_iran.py (lines 21 to 28).
StateDirNotRedirected(context) == ".state"

\* STATE_DIR of the context: constants.py for main.py, the override of
\* main_for_iran.py for the Iran pipeline.
get_state_dir(context) == IF context = "main" THEN ".state" ELSE ".state_iran"

\* bytes.fromhex(hash_str)
hash_to_bytes(hash_str) ==
  IF Len(hash_str) % 2 = 0 /\ \A i \in 1..Len(hash_str) : IsHex(hash_str[i])
    THEN [ok |-> TRUE,
          bytes |-> [j \in 1..(Len(hash_str) \div 2) |->
                       16 * HexVal(hash_str[2 * j - 1]) + HexVal(hash_str[2 * j])]]
    ELSE [ok |-> FALSE, bytes |-> <<>>]

\* hash_bytes.hex()
bytes_to_hash(hash_bytes) ==
  Flatten([j \in 1..Len(hash_bytes) |->
             lower(<<HexDigits[(hash_bytes[j] \div 16) + 1], HexDigits[(hash_bytes[j] % 16) + 1]>>)])

\* get_current_tested_file(): the highest numbered text file of the state
\* directory, tested.txt when there is none.
get_current_tested_file(text, context) ==
  LET Highest(nums) == IF nums = {} THEN 0 ELSE MaxOf(nums)
  IN <<get_state_dir(context),
       Highest({f[2] : f \in {g \in DOMAIN text : g[1] = get_state_dir(context)}})>>

\* should_rotate_tested_file()
should_rotate_tested_file(text, context) ==
  LET Full(current_file) ==
        current_file \in DOMAIN text /\ Len(text[current_file]) >= max_size_lines
  IN Full(get_current_tested_file(text, context))

\* rotate_tested_file(): the name of the next segment; no file is created.
rotate_tested_file(text, context) ==
  LET NextOf(current_file) == <<current_file[1], current_file[2] + 1>>
  IN NextOf(get_current_tested_file(text, context))

\* A variant of get_all_tested_files that lists text files only.
TextFilesOnly(text, bin, context) ==
  {f \in DOMAIN text : f[1] \in {get_state_dir(context), ".state"}}

\* A variant of get_all_tested_files that lists the state directory only.
StateDirFilesOnly(text, bin, context) ==
  {f \in DOMAIN text \cup DOMAIN bin : f[1] = get_state_dir(context)}

\* get_all_tested_files(): the segments that have a text or a binary file, in
\* the state directory and in the main .state directory.  (The code returns
\* them as a sorted list; its callers use the members and the length.)
get_all_tested_files(text, bin, context) ==
  {f \in DOMAIN text \cup DOMAIN bin : f[1] \in {get_state_dir(context), ".state"}}

\* The hashes of the lines of a text file, as the loops over read_lines
\* take them; no hash for a file that does not exist.
LinesOf(text, f) ==
  IF f \notin DOMAIN text THEN {}
  ELSE {strip(text[f][i]) : i \in {j \in 1..Len(text[f]) : Len(strip(text[f][j])) > 0}}

\* A variant of TestedWith in which a binary file that fails to read ends
\* the collection with nothing.
TestedOrNothing(text, bin, tested_files, io) ==
  IF tested_files \cap io.unreadable # {} THEN {}
  ELSE UNION {IF f \in DOMAIN bin
                THEN {bytes_to_hash(struct_unpack(e).hash_bytes) :
                        e \in SeqRange(ReadEntries(bin[f]))}
                ELSE LinesOf(text, f) : f \in tested_files}

\* The set that load_tested_hashes_optimized collects (lines 200 to 238):
\* for each segment the hashes of its binary file when it has one, those of
\* its text file otherwise; when reading the binary file raises, the hashes
\* read until then and those of the text file.
TestedWith(text, bin, tested_files, io) ==
  LET Hashes(entries) == {bytes_to_hash(struct_unpack(e).hash_bytes) : e \in SeqRange(entries)}
      Upto28(entries, n) == SubSeq(entries, 1, IF n < Len(entries) THEN n ELSE Len(entries))
      Of(f) == IF f \notin DOMAIN bin THEN LinesOf(text, f)
               ELSE IF f \in io.unreadable
                 THEN Hashes(Upto28(ReadEntries(bin[f]), io.read)) \cup LinesOf(text, f)
               ELSE Hashes(ReadEntries(bin[f]))
  IN UNION {Of(f) : f \in tested_files}

\* The same when every read succeeds.
TestedOf(text, bin, tested_files) == TestedWith(text, bin, tested_files, NoFault)

\* A variant of migrate_to_optimized_format that writes nothing.
MigrateNothing(bin, context, hashes, current_time, write_ok) == bin

\* migrate_to_optimized_format(hashes): the binary files afterwards.  (The
\* entries are written in the iteration order of a Python set; they are put in
\* sorted order here, as no operation depends on the order within one
\* migration.)  When the write fails the binary file is left as it was.
migrate_to_optimized_format(bin, context, hashes, current_time, write_ok) ==
  LET Write(entries) ==
        IF Len(entries) > 0 /\ write_ok
          THEN (<<get_state_dir(context), 0>> :> Flatten(entries)) @@ bin ELSE bin
      Packed(valid) ==
        [i \in 1..Len(valid) |-> struct_pack(current_time, hash_to_bytes(valid[i]).bytes)]
  IN Write(Packed(SortedTexts({x \in {strip(h) : h \in hashes} :
                                 Len(x) > 0 /\ hash_to_bytes(x).ok})))

\* load_tested_hashes_optimized(): the set returned and the binary files
\* afterwards.
load_tested_hashes_optimized(text, bin, context, current_time, io) ==
  LET tested_bin_file == <<get_state_dir(context), 0>>
      Loaded(tested_files, tested) ==
        [tested |-> tested,
         bin |-> IF /\ tested # {}
                    /\ Cardinality(tested_files) = 1
                    /\ \/ tested_bin_file \notin DOMAIN bin
                       \/ 10 * Len(bin[tested_bin_file]) < 9 * entry_size * Cardinality(tested)
                   THEN migrate_to_optimized_format(bin, context, tested, current_time,
                                                    io.write_ok)
                   ELSE bin]
      Files(tested_files) == Loaded(tested_files, TestedWith(text, bin, tested_files, io))
  IN Files(get_all_tested_files(text, bin, context))

\* append_lines(path, lines) on a file of the store.
append_lines(text, path, lines) ==
  (path :> ((IF path \in DOMAIN text THEN text[path] ELSE <<>>) \o lines)) @@ text

\* append_tested_hashes_optimized(new_hashes) up to its write (lines 296 to
\* 332): the binary files after the load, the file to write to and the
\* entries to write.
NewEntries(text, bin, context, new_hashes, current_time, io) ==
  LET Target(current_file, count) ==
        IF current_file \in DOMAIN text /\ Len(text[current_file]) + count >= max_size_lines
          THEN rotate_tested_file(text, context) ELSE current_file
      Entries(bin1, current_file, new_entries) ==
        [bin |-> bin1, bin_file |-> Target(current_file, Len(new_entries)),
         new_entries |-> new_entries]
      Fresh(existing_hashes, hs) ==
        LET New(i) == /\ Len(hs[i]) > 0 /\ hs[i] \notin existing_hashes
                      /\ hash_to_bytes(hs[i]).ok
                      /\ \A j \in 1..(i - 1) : hs[j] # hs[i]
            Pack(at) == [i \in 1..Len(at) |->
                           struct_pack(current_time, hash_to_bytes(hs[at[i]]).bytes)]
        IN Pack(Positions(hs, New))
      Existing(current_file, loaded) ==
        Entries(loaded.bin, current_file,
                Fresh(loaded.tested, [i \in 1..Len(new_hashes) |-> strip(new_hashes[i])]))
  IN Existing(get_current_tested_file(text, context),
              load_tested_hashes_optimized(text, bin, context, current_time, io))

\* The bytes of a file, none when it does not exist.
BytesOf(bin, f) == IF f \in DOMAIN bin THEN bin[f] ELSE <<>>

\* append_tested_hashes_optimized(new_hashes), new_hashes a list: the text and
\* binary files afterwards.  When the binary file cannot be opened the hashes
\* given go to the text file of the segment.
append_tested_hashes_optimized(text, bin, context, new_hashes, current_time, io) ==
  LET NonBlank(hs) == SelectSeq(hs, LAMBDA h : Len(strip(h)) > 0)
      Written(w) ==
        IF Len(w.new_entries) = 0 THEN [text |-> text, bin |-> w.bin]
        ELSE IF io.write_ok
          THEN [text |-> text,
                bin |-> (w.bin_file :> (BytesOf(w.bin, w.bin_file) \o Flatten(w.new_entries)))
                          @@ w.bin]
        ELSE [text |-> append_lines(text, w.bin_file, NonBlank(new_hashes)), bin |-> w.bin]
  IN IF Len(new_hashes) = 0 THEN [text |-> text, bin |-> bin]
     ELSE Written(NewEntries(text, bin, context, new_hashes, current_time, io))

\* cleanup_old_hashes(days_to_keep): the binary files afterwards and the
\* count returned.  The entries of tested.txt.bin of the state directory
\* are read; when some are older than the cutoff the file is rewritten with
\* the others, and when that write fails it is left as it was.
cleanup_old_hashes(bin, context, days_to_keep, current_time, io) ==
  LET tested_bin_file == <<get_state_dir(context), 0>>
      cutoff_time == current_time - days_to_keep * 24 * 60 * 60
      Kept(e) == struct_unpack(e).timestamp >= cutoff_time
      Rewritten(kept_entries, removed_count) ==
        [bin |-> IF removed_count > 0 /\ io.write_ok
                   THEN (tested_bin_file :> Flatten(kept_entries)) @@ bin ELSE bin,
         removed_count |-> removed_count]
      Split(entries) ==
        Rewritten(SelectSeq(entries, Kept), Len(entries) - Len(SelectSeq(entries, Kept)))
      Read(entries) ==
        IF tested_bin_file \in io.unreadable
          THEN [bin |-> bin,
                removed_count |->
                  Len(SelectSeq(SubSeq(entries, 1, IF io.read < Len(entries)
                                                     THEN io.read ELSE Len(entries)),
                                LAMBDA e : ~Kept(e)))]
          ELSE Split(entries)
  IN IF tested_bin_file \notin DOMAIN bin THEN [bin |-> bin, removed_count |-> 0]
     ELSE Read(ReadEntries(bin[tested_bin_file]))

(* ------------------------------------------------------------------ *)
(* main.py: the URIs of a pipeline run                                 *)
(* ------------------------------------------------------------------ *)

\* The URIs the sources and the available-proxy file are made of: two
\* trojan URIs with the same connection hash and dedup key, and two vless
\* URIs with the same dedup key and different connection hashes.
PipeUris ==
  << <<"t","r","o","j","a","n",":","/","/","p","w","@","h","o","s","t",":","4","4","3","?","s","n","i","=","a",".","c","o","m">>, <<"t","r","o","j","a","n",":","/","/","p","w","@","h","o","s","t",":","4","4","3","?","s","n","i","=","a",".","c","o","m","&","f","o","o","=","b","a","r","#","x">>,
     <<"v","l","e","s","s",":","/","/","u","u","i","d","@","h","o","s","t",":","4","4","3","?","s","n","i","=","a",".","c","o","m">>, <<"v","l","e","s","s",":","/","/","u","u","i","d","@","h","o","s","t",":","4","4","3","?","s","n","i","=","b",".","c","o","m">> >>

\* get_proxy_connection_hash(uri) as the 40 hexadecimal characters that
\* hexdigest() gives: the digests of PipeUris are numbered, equal digests
\* getting the same number, and the number is spelled twenty times.
HexDigest(uri) ==
  LET Spell(i) == HashText(<<"0", Chr(48 + i)>>)
      Number(d) == Spell(CHOOSE i \in 1..Len(d) : d[i] = d[Len(d)] /\ \A j \in 1..(i - 1) : d[j] # d[i])
  IN Number([i \in 1..(Len(PipeUris) + 1) |->
               get_proxy_connection_hash((PipeUris \o <<uri>>)[i])])

\* The members of s at the positions at, in that order.
Pick(s, at) == [i \in 1..Len(at) |-> s[at[i]]]

\* The positions of the first occurrence of every value of s.
FirstOccurrences(s) ==
  LET First(i) == \A j \in 1..(i - 1) : s[j] # s[i]
  IN Positions(s, First)

\* _set_remark(u, remark) of parsing.py: the URI with the remark replaced.
_set_remark(uri, remark) == split1(uri, "#")[1] \o <<"#">> \o remark

\* A line of the available-proxy file that is no URI and has no host: the
\* middle marker of a merge conflict.
MarkerLine == <<"=","=","=","=","=","=","=">>

\* The lines of a run: the URIs as the sources give them and as the pipeline
\* writes them to the available-proxy file.
PipeLines ==
  SeqRange(PipeUris) \cup {_set_remark(PipeUris[i], <<"[","O","p","e","n","R","a","y","]">>) : i \in 1..Len(PipeUris)}
    \cup {MarkerLine}

(* ------------------------------------------------------------------ *)
(* main.py: the check of one candidate                                 *)
(* ------------------------------------------------------------------ *)

\* A stage of a check is given with its outcome: "ok" (ping_host,
\* connect_host_port, quick_protocol_probe returned true; extract_port
\* returned a port), "fail" (false; None) or "raise" (an exception).

\* uri.split('://', 1)[0].lower()
SchemeOf(uri) ==
  LET Before(i) == IF i = 0 THEN uri ELSE Upto(uri, i - 1)
  IN lower(Before(findsub(uri, <<":","/","/">>)))

\* scheme in ('vmess', 'vless', 'trojan', 'ss', 'ssr')
IsConnectionOriented(uri) == SchemeOf(uri) \in {<<"v","m","e","s","s">>, <<"v","l","e","s","s">>, <<"t","r","o","j","a","n">>, <<"s","s">>, <<"s","s","r">>}

\* A variant of _check_proxy_operation in which a failed ping or connect
\* does not end the check.
CheckWithoutShortCircuit(u, stage, out, enable_stage2) ==
  IF out = "raise" THEN [pc |-> "done", result |-> "fail"]
  ELSE IF stage = "ping"
    THEN IF IsConnectionOriented(u) THEN [pc |-> "port", result |-> "none"]
         ELSE [pc |-> "done", result |-> "ok"]
  ELSE IF stage = "port"
    THEN IF out = "ok" THEN [pc |-> "connect", result |-> "none"]
         ELSE [pc |-> "done", result |-> "ok"]
  ELSE IF stage = "connect"
    THEN IF enable_stage2 THEN [pc |-> "probe", result |-> "none"]
         ELSE [pc |-> "done", result |-> "ok"]
  ELSE [pc |-> "done", result |-> out]

\* A variant of _check_proxy_operation without its try/except: an exception
\* of a stage leaves the function.
CheckWithoutTry(u, stage, out, enable_stage2) ==
  IF out = "raise" THEN [pc |-> "done", result |-> "raised"]
  ELSE IF stage = "ping"
    THEN IF out = "fail" THEN [pc |-> "done", result |-> "fail"]
         ELSE IF IsConnectionOriented(u) THEN [pc |-> "port", result |-> "none"]
         ELSE [pc |-> "done", result |-> "ok"]
  ELSE IF stage = "port"
    THEN IF out = "ok" THEN [pc |-> "connect", result |-> "none"]
         ELSE [pc |-> "done", result |-> "ok"]
  ELSE IF stage = "connect"
    THEN IF out = "fail" THEN [pc |-> "done", result |-> "fail"]
         ELSE IF enable_stage2 THEN [pc |-> "probe", result |-> "none"]
         ELSE [pc |-> "done", result |-> "ok"]
  ELSE [pc |-> "done", result |-> out]

\* _check_proxy_operation() of check_existing (lines 250 to 271), one stage
\* at a time: where the function goes after the stage stage has had the
\* outcome out, and the value it returns when it is done: "ok" for u, "fail"
\* for None.
_check_proxy_operation(u, stage, out, enable_stage2) ==
  IF out = "raise" THEN [pc |-> "done", result |-> "fail"]
  ELSE IF stage = "ping"
    THEN IF out = "fail" THEN [pc |-> "done", result |-> "fail"]
         ELSE IF IsConnectionOriented(u) THEN [pc |-> "port", result |-> "none"]
         ELSE [pc |-> "done", result |-> "ok"]
  ELSE IF stage = "port"
    THEN IF out = "ok" THEN [pc |-> "connect", result |-> "none"]
         ELSE [pc |-> "done", result |-> "ok"]
  ELSE IF stage = "connect"
    THEN IF out = "fail" THEN [pc |-> "done", result |-> "fail"]
         ELSE IF enable_stage2 THEN [pc |-> "probe", result |-> "none"]
         ELSE [pc |-> "done", result |-> "ok"]
  ELSE [pc |-> "done", result |-> out]

\* _check_new_proxy_operation() of check_one (lines 428 to 444), in the same
\* way: "ok" for (uri, host, True), "fail" for (uri, host, False).
_check_new_proxy_operation(uri, stage, out, enable_stage2) ==
  IF out = "raise" THEN [pc |-> "done", result |-> "fail"]
  ELSE IF stage = "ping"
    THEN IF out = "fail" THEN [pc |-> "done", result |-> "fail"]
         ELSE IF IsConnectionOriented(uri) THEN [pc |-> "port", result |-> "none"]
         ELSE [pc |-> "done", result |-> "ok"]
  ELSE IF stage = "port"
    THEN IF out = "ok" THEN [pc |-> "connect", result |-> "none"]
         ELSE [pc |-> "done", result |-> "ok"]
  ELSE IF stage = "connect"
    THEN IF out = "ok" /\ enable_stage2 THEN [pc |-> "probe", result |-> "none"]
         ELSE [pc |-> "done", result |-> out]
  ELSE [pc |-> "done", result |-> out]

\* A variant of check_existing and check_one that takes a thread that is
\* still alive for one that succeeded.
ReturnedTrustingLate(kind, is_alive, result) ==
  IF is_alive THEN "ok" ELSE IF result = "ok" THEN "ok" ELSE "fail"

\* What check_existing (lines 288 to 295) and check_one (lines 461 to 468)
\* return after thread.join(10.0): "fail" when the thread is still alive,
\* else what the thread left in result[0]; check_existing raises an
\* exception that the thread left in exception[0].
call_result(kind, is_alive, result) ==
  IF is_alive THEN "fail"
  ELSE IF result = "raised" THEN (IF kind = "existing" THEN "raised" ELSE "fail")
  ELSE IF result = "ok" THEN "ok" ELSE "fail"

\* _core_check(u) (lines 320 to 325 and 496 to 501): u is kept when
\* validate_with_v2ray_core returns True, not when it returns anything else
\* or raises.
_core_check(out) == out = "ok"

\* STAGE3_MAX of constants.py: the number of survivors the deep validation of
\* one stage is meant to take.
STAGE3_MAX == 1

(* ------------------------------------------------------------------ *)
(* State                                                               *)
(* ------------------------------------------------------------------ *)

\* The pairs of URIs given to the normalizer.
VARIABLES
  fam,    \* the scheme family of the pair: "vmess", "vless", "trojan", "other"
  form,   \* "std" (scheme://authority...) or "path" (scheme:///...: empty authority)
  diff,   \* the aspects in which the second URI was built to differ from the first
  pairUri,    \* the two input URIs
  pairTrace,  \* NormalizeTrace of each
  pairHash,   \* get_proxy_connection_hash of each
  pairKey,    \* get_openray_dedup_key of each
  pairAgain,  \* normalize_proxy_uri of each normalized URI
  pairV2rayn, \* get_v2rayn_connection_key of each
  npc     \* how far the pair has been processed

normVars == <<fam, form, diff, pairUri, pairTrace, pairHash, pairKey, pairAgain, pairV2rayn, npc>>

\* The tested-identity store and the calls made on it.
VARIABLES
  context,      \* "main" (main.py) or "iran" (main_for_iran.py)
  textFiles,    \* the text files of the store
  binFiles,     \* the binary files of the store
  loaded,       \* what the last load returned
  returned,     \* every hash a load has returned
  appended,     \* every hash given to an append
  fromEmpty,    \* the store had no file at the start
  lastOp,       \* the last step: "none", "load", "append", "interrupted", "cleanup", "tick"
  ops           \* the number of calls made

fsVars == <<context, textFiles, binFiles>>

storeVars == <<loaded, returned, appended, fromEmpty, lastOp, ops>>

\* The clock, and what the last call on the store met and did.
VARIABLES
  now,          \* int(time.time())
  io,           \* the failures of the operating system in the last call
  textBefore,   \* the text files before the last call
  binBefore,    \* the binary files before the last call
  written,      \* the file the last append wrote to, its bytes before and the bytes given
  days_to_keep, \* the argument of the last cleanup_old_hashes
  removed       \* what the last cleanup_old_hashes returned

callVars == <<now, io, textBefore, binBefore, written, days_to_keep, removed>>

\* A run of main().
VARIABLES
  availableFile,     \* the lines of the available-proxy file
  ppc,               \* the step main() is at
  runs,              \* the number of runs started
  fileBefore,        \* the available-proxy file when the revalidation began
  reval,             \* the revalidation: lines checked, survivors, probe result
  tested_hashes,     \* load_tested_hashes_optimized() of the run
  new_uris,          \* the URIs taken as new in the run
  new_hashes,        \* their connection hashes
  available_to_add,  \* the new URIs found reachable
  recorded,          \* the hashes the earlier runs recorded
  dedupKey,          \* get_openray_dedup_key of every line of the run
  connHash           \* get_proxy_connection_hash of every line of the run

pipeVars == <<availableFile, ppc, runs, fileBefore, reval, tested_hashes, new_uris, new_hashes,
              available_to_add, recorded, dedupKey, connHash>>

\* The check of the candidates of one pool (check_existing or check_one).
VARIABLES
  probeConf,         \* the pool: kind, ENABLE_STAGE2, ENABLE_STAGE3 and the items (uri, host)
  workers,           \* the thread of each item: the stage it is at, result[0], the stages it ran
  calls,             \* the call of each item: how join(10.0) ended and what the call returned
  collected,         \* the number of results the loop over pool.map has taken
  alive_list,        \* alive (available_to_add for new proxies)
  host_success_run,  \* host_success_run
  core_results,      \* what validate_with_v2ray_core did for each URI of the subset
  probePc            \* "pool", "core", "persist" (the run goes on) or "crashed"

poolVars == <<probeConf, workers, calls, collected, alive_list, core_results, probePc>>

probeVars == <<poolVars, host_success_run>>

\* The end of a run: the streaks, the check counts and the ranking.
VARIABLES
  preflight,         \* the pre-flight probe of the run: "none", "ok" or "failed"
  streaksFile,       \* the records of the streak file, by host
  streakSaved,       \* whether the run has called save_streaks
  streakProbe,       \* _has_connectivity() of line 594: "none" (not called), "ok", "failed"
  countsFile,        \* .state/check_counts.json: the main and iran counters of each proxy
  iranCountsFile,    \* .state_iran/check_counts.json: the counter of each proxy
  top100File,        \* the lines of main_top100_checked.txt
  iranTop100File,    \* the lines of iran_top100_checked.txt
  proxies,           \* the list last given to _update_check_counts_for_proxies
  active_proxies,    \* the list last given to _write_top100_by_checks
  v2raynKey          \* get_v2rayn_connection_key of every line of the run

tailVars == <<preflight, streaksFile, streakSaved, streakProbe, countsFile, iranCountsFile,
              top100File, iranTop100File, proxies, active_proxies, v2raynKey>>

vars == <<normVars, fsVars, storeVars, callVars, pipeVars, probeVars, tailVars>>

\* No pair is being normalized.
NormIdle ==
  /\ fam = "none" /\ form = "none" /\ diff = {} /\ pairUri = <<>> /\ pairTrace = <<>>
  /\ pairHash = <<>> /\ pairKey = <<>> /\ pairAgain = <<>> /\ pairV2rayn = <<>>
  /\ npc = "idle"

\* The clock at the start: forty days after the epoch, in seconds.
StartTime == 40 * 24 * 60 * 60

NothingWritten == [file |-> <<>>, old |-> <<>>, data |-> <<>>]

\* No call has been made on the store.
NoCall ==
  /\ now = StartTime /\ io = NoFault /\ textBefore = <<>> /\ binBefore = <<>>
  /\ written = NothingWritten /\ days_to_keep = 0 /\ removed = 0

\* No store is in use.
StoreIdle ==
  /\ context = "main" /\ textFiles = <<>> /\ binFiles = <<>>
  /\ loaded = {} /\ returned = {} /\ appended = {} /\ fromEmpty = TRUE
  /\ lastOp = "none" /\ ops = 0
  /\ NoCall

NoRevalidation ==
  [ran |-> FALSE, existing |-> 0, alive |-> 0, survivors |-> {}, probed |-> {},
   connectivity |-> TRUE]

\* No run is in progress.
PipeIdle ==
  /\ availableFile = <<>> /\ ppc = "idle" /\ runs = 0 /\ fileBefore = <<>>
  /\ reval = NoRevalidation /\ tested_hashes = {} /\ new_uris = <<>> /\ new_hashes = <<>>
  /\ available_to_add = <<>> /\ recorded = {} /\ dedupKey = <<>> /\ connHash = <<>>

\* No pool is running.
ProbeIdle ==
  /\ probeConf = <<>> /\ workers = <<>> /\ calls = <<>> /\ collected = 0 /\ alive_list = <<>>
  /\ host_success_run = <<>> /\ core_results = <<>> /\ probePc = "idle"

\* No streak, no count and no ranking is kept.
TailIdle ==
  /\ preflight = "none" /\ streaksFile = <<>> /\ streakSaved = FALSE /\ streakProbe = "none"
  /\ countsFile = <<>> /\ iranCountsFile = <<>> /\ top100File = <<>> /\ iranTop100File = <<>>
  /\ proxies = <<>> /\ active_proxies = <<>> /\ v2raynKey = <<>>

(* ------------------------------------------------------------------ *)
(* main.py: the steps of a pipeline run                                *)
(* ------------------------------------------------------------------ *)

\* The deduplication of the existing lines (lines 229 to 238): the first line
\* of every dedup key.
deduplicated_existing(existing_lines) ==
  Pick(existing_lines,
       FirstOccurrences([i \in 1..Len(existing_lines) |->
                           dedupKey[existing_lines[i]]]))

\* main() going on after a failed pre-flight probe.
PreflightIgnored(has_connectivity) == "revalidate"

\* Where main() goes after the pre-flight probe (lines 201 to 212): on to
\* the revalidation, or out with return 2.
after_preflight(has_connectivity) == IF has_connectivity THEN "revalidate" ELSE "aborted"

\* extract_host of parsing.py for a URI scheme://credential@host:port...: the
\* text between the "@" and the next ":".
extract_host(uri) ==
  IF Len(split1(uri, "@")) < 2 THEN <<>> ELSE split1(split1(uri, "@")[2], ":")[1]

\* The items of a pool (lines 241 and 420): the positions of the lines that
\* have a host.
items_of(lines) == {k \in 1..Len(lines) : extract_host(lines[k]) # <<>>}

\* host_success_run after a pool (lines 243 to 245 and 302 to 304, 473 to
\* 477): every host of the lines has a flag, set when one of its lines
\* passed.
host_flags(old, lines, passed) ==
  [h \in DOMAIN old \cup {extract_host(lines[k]) : k \in items_of(lines)} |->
     \/ h \in DOMAIN old /\ old[h]
     \/ \E k \in passed : extract_host(lines[k]) = h]

\* Lines 336 to 349 without the connectivity probe: the file is rewritten
\* whenever the number of survivors differs.
RevalidatedFileNoGuard(file, existing_lines, alive, has_connectivity) ==
  IF Len(alive) # Len(existing_lines) THEN alive ELSE file

\* Lines 336 to 349 writing the lines that were checked instead of the ones
\* that passed.
RevalidatedFileKeepingAll(file, existing_lines, alive, has_connectivity) ==
  IF Len(alive) # Len(existing_lines)
    THEN IF Len(existing_lines) > 0 /\ Len(alive) = 0 /\ ~has_connectivity
           THEN file ELSE existing_lines
    ELSE file

\* The available-proxy file after revalidation (lines 336 to 349).
revalidated_file(file, existing_lines, alive, has_connectivity) ==
  IF Len(alive) # Len(existing_lines)
    THEN IF Len(existing_lines) > 0 /\ Len(alive) = 0 /\ ~has_connectivity
           THEN file ELSE alive
    ELSE file

\* Lines 382 to 397 without the test against the tested hashes.
NewCandidatesUnfiltered(extracted, tested) ==
  LET Chosen(hashes, sel) == [uris |-> Pick(extracted, sel), hashes |-> Pick(hashes, sel)]
  IN Chosen([i \in 1..Len(extracted) |-> connHash[extracted[i]]],
            FirstOccurrences([i \in 1..Len(extracted) |->
                                dedupKey[extracted[i]]]))

\* new_uris and new_hashes (lines 382 to 397): the first URI of every dedup
\* key, when its hash is not a tested one.
new_candidates(extracted, tested) ==
  LET Chosen(hashes, sel) == [uris |-> Pick(extracted, sel), hashes |-> Pick(hashes, sel)]
      Untested(hashes, firsts) ==
        LET New(i) == hashes[firsts[i]] \notin tested
        IN Chosen(hashes, Pick(firsts, Positions(firsts, New)))
  IN Untested([i \in 1..Len(extracted) |-> connHash[extracted[i]]],
              FirstOccurrences([i \in 1..Len(extracted) |->
                                  dedupKey[extracted[i]]]))

\* new_uris[:_limit] (lines 403 to 413); limit 0 stands for no limit.
limited(s, limit) == IF limit > 0 /\ Len(s) > limit THEN SubSeq(s, 1, limit) ELSE s

\* Lines 513 to 560 with existing_connection_keys starting empty: only the
\* URIs of the run are compared with each other.
FormattedWithoutExistingKeys(existing_available, to_add) ==
  LET New(i) == \A j \in 1..(i - 1) : dedupKey[to_add[j]] # dedupKey[to_add[i]]
  IN [i \in 1..Len(Positions(to_add, New)) |->
        _set_remark(to_add[Positions(to_add, New)[i]], <<"[","O","p","e","n","R","a","y","]">>)]

\* The lines appended to the available-proxy file (lines 513 to 560): the
\* reachable URIs whose dedup key no line of the file has, the first of each
\* key, with the remark of the pipeline.
formatted_to_append(existing_available, to_add) ==
  LET Fresh(keys, count) ==
        LET New(i) == i > count /\ \A j \in 1..(i - 1) : keys[j] # keys[i]
        IN Positions(keys, New)
      Lines(all, at) == [i \in 1..Len(at) |-> _set_remark(all[at[i]], <<"[","O","p","e","n","R","a","y","]">>)]
      Both(all) == Lines(all, Fresh([i \in 1..Len(all) |-> dedupKey[all[i]]],
                                    Len(existing_available)))
  IN Both(existing_available \o to_add)

(* ------------------------------------------------------------------ *)
(* main.py and main_for_iran.py: streaks, check counts and the ranking *)
(* ------------------------------------------------------------------ *)

\* Lines of the proxy list: two trojan lines of one dedup key, a trojan line
\* of another host, a vless line.
TailUris ==
  << <<"t","r","o","j","a","n",":","/","/","p","w","@","a",":","4","4","3","#","x">>, <<"t","r","o","j","a","n",":","/","/","p","w","@","a",":","4","4","3","#","y">>, <<"t","r","o","j","a","n",":","/","/","p","w","@","b",":","4","4","3","#","x">>, <<"v","l","e","s","s",":","/","/","u","u","i","d","@","c",":","4","4","3">> >>

\* The length of the ranking, scored[:100]; 2 here.
top_limit == 2

\* sum(1 for v in host_success_run.values() if v) (line 593).
total_successes(hosts) == Cardinality({h \in DOMAIN hosts : hosts[h]})

\* The default of streaks.get (line 599).
NoRecord == [streak |-> 0, last_test |-> 0, last_success |-> 0]

\* The loop of lines 598 to 607 writing last_test of every record, probed
\* or not.
UpdatedStreaksTouchingAll(streaks, hosts, now_ts) ==
  [h \in DOMAIN streaks \cup DOMAIN hosts |->
     LET rec == IF h \in DOMAIN streaks THEN streaks[h] ELSE NoRecord
     IN IF h \in DOMAIN hosts /\ hosts[h]
          THEN [streak |-> rec.streak + 1, last_test |-> now_ts, last_success |-> now_ts]
        ELSE IF h \in DOMAIN hosts
          THEN [streak |-> 0, last_test |-> now_ts, last_success |-> rec.last_success]
        ELSE [rec EXCEPT !.last_test = now_ts]]

\* The loop of lines 598 to 607 without the else branch of line 605: a
\* failure leaves the streak as it was.
UpdatedStreaksWithoutReset(streaks, hosts, now_ts) ==
  [h \in DOMAIN streaks \cup DOMAIN hosts |->
     IF h \notin DOMAIN hosts THEN streaks[h]
     ELSE LET rec == IF h \in DOMAIN streaks THEN streaks[h] ELSE NoRecord
          IN IF hosts[h]
               THEN [streak |-> rec.streak + 1, last_test |-> now_ts, last_success |-> now_ts]
               ELSE [rec EXCEPT !.last_test = now_ts]]

\* streaks after the loop of lines 598 to 607: every host of host_success_run
\* gets last_test = now_ts; with a success its streak grows by one and
\* last_success = now_ts, without one its streak is 0.
updated_streaks(streaks, hosts, now_ts) ==
  [h \in DOMAIN streaks \cup DOMAIN hosts |->
     IF h \notin DOMAIN hosts THEN streaks[h]
     ELSE LET rec == IF h \in DOMAIN streaks THEN streaks[h] ELSE NoRecord
          IN IF hosts[h]
               THEN [streak |-> rec.streak + 1, last_test |-> now_ts, last_success |-> now_ts]
               ELSE [streak |-> 0, last_test |-> now_ts, last_success |-> rec.last_success]]

\* Lines 592 to 608 without the test of line 594.
UpdateStreaksNoGuard(streaks, hosts, has_connectivity, now_ts) ==
  [file |-> updated_streaks(streaks, hosts, now_ts), saved |-> TRUE,
   probe |-> IF total_successes(hosts) > 0 THEN "none"
             ELSE IF has_connectivity THEN "ok" ELSE "failed"]

\* The streak step (lines 592 to 608): the streak file afterwards, whether
\* save_streaks was called, and what _has_connectivity() gave; the probe is
\* made only when no host had a success.
update_streaks(streaks, hosts, has_connectivity, now_ts) ==
  IF total_successes(hosts) = 0 /\ ~has_connectivity
    THEN [file |-> streaks, saved |-> FALSE, probe |-> "failed"]
    ELSE [file |-> updated_streaks(streaks, hosts, now_ts), saved |-> TRUE,
          probe |-> IF total_successes(hosts) = 0 THEN "ok" ELSE "none"]

\* The default of a proxy without counters (line 135).
NoCounts == [main |-> 0, iran |-> 0]

\* unique_proxies of main.py (lines 122 to 131): the first proxy of every
\* dedup key, in the order of the list.
unique_proxies(given) ==
  Pick(given, FirstOccurrences([i \in 1..Len(given) |-> dedupKey[given[i]]]))

\* _update_check_counts_for_proxies of main.py (lines 115 to 147): the
\* counters afterwards.
_update_check_counts_for_proxies(counts, given, counter_type) ==
  LET unique == SeqRange(unique_proxies(given))
  IN [p \in DOMAIN counts \cup unique |->
        LET old == IF p \in DOMAIN counts THEN counts[p] ELSE NoCounts
        IN IF p \in unique THEN [old EXCEPT ![counter_type] = @ + 1] ELSE old]

\* scored.sort(key=...) as the positions of the list in sorted order; Before
\* is the order of the keys.
sorted_positions(n, Before(_, _)) == SortSeq([i \in 1..n |-> i], Before)

\* scored[:100].
top(s) == IF Len(s) > top_limit THEN SubSeq(s, 1, top_limit) ELSE s

\* _write_top100_by_checks of main.py without the second key of the sort.
WriteTop100ByMainOnly(counts, active, file) ==
  LET Count(i) == IF active[i] \in DOMAIN counts THEN counts[active[i]] ELSE NoCounts
      Before(i, j) == \/ Count(i).main > Count(j).main
                      \/ Count(i).main = Count(j).main /\ i < j
  IN IF Len(active) = 0 THEN file
     ELSE top(Pick(active, sorted_positions(Len(active), Before)))

\* _write_top100_by_checks of main.py (lines 150 to 197): the lines of the
\* ranking file afterwards; the sort key is (-main, -iran, idx).
_write_top100_by_checks(counts, active, file) ==
  LET Count(i) == IF active[i] \in DOMAIN counts THEN counts[active[i]] ELSE NoCounts
      Before(i, j) == \/ Count(i).main > Count(j).main
                      \/ Count(i).main = Count(j).main /\ Count(i).iran > Count(j).iran
                      \/ Count(i).main = Count(j).main /\ Count(i).iran = Count(j).iran /\ i < j
  IN IF Len(active) = 0 THEN file
     ELSE top(Pick(active, sorted_positions(Len(active), Before)))

\* _cleanup_check_counts of main_for_iran.py (lines 283 to 298).
_cleanup_check_counts(counts, active) ==
  IF Len(active) = 0 THEN counts
  ELSE [p \in DOMAIN counts \cap SeqRange(active) |-> counts[p]]

\* unique_proxies of main_for_iran.py (lines 319 to 336): of the proxies that
\* are in the active list, the first of every V2RayN key.
iran_unique_proxies(given, active) ==
  LET InActive(i) == Len(active) = 0 \/ given[i] \in SeqRange(active)
      eligible == Pick(given, Positions(given, InActive))
  IN Pick(eligible,
          FirstOccurrences([i \in 1..Len(eligible) |-> v2raynKey[eligible[i]]]))

\* _update_check_counts_for_proxies of main_for_iran.py (lines 313 to 349).
iran_update_check_counts_for_proxies(counts, given, active) ==
  LET unique == SeqRange(iran_unique_proxies(given, active))
  IN [p \in DOMAIN counts \cup unique |->
        LET old == IF p \in DOMAIN counts THEN counts[p] ELSE 0
        IN IF p \in unique THEN old + 1 ELSE old]

\* _write_top100_by_checks of main_for_iran.py (lines 352 to 388); the sort
\* key is (-count, idx).
iran_write_top100_by_checks(counts, active, file) ==
  LET Count(i) == IF active[i] \in DOMAIN counts THEN counts[active[i]] ELSE 0
      Before(i, j) == Count(i) > Count(j) \/ (Count(i) = Count(j) /\ i < j)
  IN IF Len(active) = 0 THEN file
     ELSE top(Pick(active, sorted_positions(Len(active), Before)))

\* The orders in which the elements of a set can be iterated.
Orders(S) ==
  {s \in [1..Cardinality(S) -> S] : \A i, j \in 1..Cardinality(S) : i # j => s[i] # s[j]}

(* ------------------------------------------------------------------ *)
(* clean_proxy_files.py: cleaning a proxy file                         *)
(* ------------------------------------------------------------------ *)

\* The three marker lines that clean_file looks for (line 42).
UpdatedUpstream == <<"<","<","<","<","<","<","<"," ","U","p","d","a","t","e","d"," ","u","p","s","t","r","e","a","m">>
StashedChanges == <<">",">",">",">",">",">",">"," ","S","t","a","s","h","e","d"," ","c","h","a","n","g","e","s">>

\* The protocols of the validation of line 80.
KnownProtocols ==
  { <<"v","m","e","s","s",":","/","/">>, <<"v","l","e","s","s",":","/","/">>, <<"t","r","o","j","a","n",":","/","/">>, <<"s","s",":","/","/">>, <<"s","o","c","k","s","5",":","/","/">>, <<"h","t","t","p",":","/","/">>, <<"h","t","t","p","s",":","/","/">> }

\* line.startswith(prefix).
startswith(line, prefix) == Len(line) >= Len(prefix) /\ SubSeq(line, 1, Len(prefix)) = prefix

\* Step 4 (lines 78 to 85): the line starts with a known protocol.
is_valid_proxy(line) == \E protocol \in KnownProtocols : startswith(line, protocol)

\* Step 1 (lines 35 to 53): the loop over the lines from line i on, with the
\* flag skip_until_next; the branches are those of the code, in its order.
RECURSIVE without_conflicts(_, _, _)
without_conflicts(lines, i, skip_until_next) ==
  IF i > Len(lines) THEN <<>>
  ELSE LET stripped == strip(lines[i])
       IN IF stripped = UpdatedUpstream \/ stripped = MarkerLine \/ stripped = StashedChanges
            THEN without_conflicts(lines, i + 1, TRUE)
          ELSE IF skip_until_next /\ (stripped = UpdatedUpstream \/ stripped = MarkerLine)
            THEN without_conflicts(lines, i + 1, skip_until_next)
          ELSE IF skip_until_next /\ stripped = StashedChanges
            THEN without_conflicts(lines, i + 1, FALSE)
          ELSE IF skip_until_next
            THEN without_conflicts(lines, i + 1, skip_until_next)
          ELSE <<lines[i]>> \o without_conflicts(lines, i + 1, skip_until_next)

\* Step 2 (line 58): the stripped lines that are not empty.
stripped_lines(lines) ==
  LET NotEmpty(k) == Len(strip(lines[k])) > 0
  IN [i \in 1..Len(Positions(lines, NotEmpty)) |-> strip(lines[Positions(lines, NotEmpty)[i]])]

\* Step 3 (lines 63 to 70): the first line of every connection hash.
unique_lines(lines) == Pick(lines, FirstOccurrences([i \in 1..Len(lines) |-> connHash[lines[i]]]))

\* clean_file (lines 20 to 105): the lines written to the output file.
clean_file(lines) ==
  SelectSeq(unique_lines(stripped_lines(without_conflicts(lines, 1, FALSE))), is_valid_proxy)

(* ------------------------------------------------------------------ *)
(* The normalizer applied to pairs of URIs                             *)
(* ------------------------------------------------------------------ *)

\* The text of a flat JSON object whose members are (key, value text) pairs.
JsonText(members) ==
  <<"{">> \o join([i \in 1..Len(members) |->
                     <<"\"">> \o members[i][1] \o <<"\"", ":">> \o members[i][2]], <<",">>)
          \o <<"}">>

Reverse(s) == [i \in 1..Len(s) |-> s[Len(s) + 1 - i]]

\* One vmess endpoint: address, port, id and network.
VmessCore ==
  << <<<<"a","d","d">>, <<"\"","1",".","2",".","3",".","4","\"">>>>, <<<<"p","o","r","t">>, <<"4","4","3">>>>, <<<<"i","d">>, <<"\"","a","b","c","\"">>>>, <<<<"n","e","t">>, <<"\"","t","c","p","\"">>>> >>

\* The spellings of the default alterId (<<>>: the key is absent).
AidSpellings == {<<>>, <<"\"","0","\"">>, <<"0">>}

\* Display names in the ps field (<<>>: the key is absent).
PsValues == {<<>>, <<"\"","i","g","n","o","r","e","d","\"">>, <<"\"","n","o","d","e","?","1","\"">>}

Remarks == {<<>>, <<"#","M","y","R","e","m","a","r","k">>}

VmessUri(aid, ps, reversed, remark) ==
  LET Member(key, value) == IF value = <<>> THEN <<>> ELSE << <<key, value>> >>
      Ordered(m) == IF reversed THEN Reverse(m) ELSE m
  IN <<"v","m","e","s","s",":","/","/">>
       \o b64encode(JsonText(Ordered(VmessCore \o Member(<<"a","i","d">>, aid) \o Member(<<"p","s">>, ps))))
       \o remark

\* A vmess URI of the same endpoint with defaults spelled out or omitted
\* (<<>>: the key is absent).
VmessSpelledUri(net, type, aid, reversed, remark) ==
  LET Member(key, value) == IF value = <<>> THEN <<>> ELSE << <<key, value>> >>
      Ordered(m) == IF reversed THEN Reverse(m) ELSE m
  IN <<"v","m","e","s","s",":","/","/">>
       \o b64encode(JsonText(Ordered(SubSeq(VmessCore, 1, 3) \o Member(<<"n","e","t">>, net)
                                       \o Member(<<"t","y","p","e">>, type) \o Member(<<"a","i","d">>, aid))))
       \o remark

\* Two listed query parameters in either order.
OrderedQueries == <<<<"?","s","n","i","=","a",".","c","o","m","&","t","y","p","e","=","w","s">>, <<"?","t","y","p","e","=","w","s","&","s","n","i","=","a",".","c","o","m">>>>

\* URIs without query that OrderedQueries is put after.
OrderedBases ==
  [vless |-> [std |-> <<"v","l","e","s","s",":","/","/","u","u","i","d","@","h","o","s","t",":","4","4","3">>, path |-> <<"v","l","e","s","s",":","/","/","/","u","u","i","d","@","h","o","s","t",":","4","4","3">>],
   trojan |-> [std |-> <<"t","r","o","j","a","n",":","/","/","p","w","@","h","o","s","t",":","4","4","3">>, path |-> <<"t","r","o","j","a","n",":","/","/","/","p","w","@","h","o","s","t",":","4","4","3">>],
   other |-> [std |-> <<"s","o","c","k","s","5",":","/","/","h","o","s","t",":","1","0","8","0">>, path |-> <<"s","o","c","k","s","5",":","/","/","/","h","o","s","t",":","1","0","8","0">>]]

\* Shadowsocks payloads method:password@host:port.
SsPayloads == {<<"a","e","s",":","p","w","@","h","o","s","t",":","8","3","8","8">>, <<"a",":","p","@","h",":","1">>}

\* What precedes the payload of an ss URI in each form.
SsPrefix == [std |-> <<"s","s",":","/","/">>, path |-> <<"s","s",":","/","/","/">>]

\* The connection parameters of the allow-list: security, type, path, host
\* header, service name, mode, header type, SNI, ALPN, fingerprint, public
\* key, short id and flow.
AllowListed ==
  {<<"s","e","c","u","r","i","t","y">>, <<"t","y","p","e">>, <<"p","a","t","h">>, <<"h","o","s","t">>, <<"s","e","r","v","i","c","e","N","a","m","e">>, <<"m","o","d","e">>, <<"h","e","a","d","e","r","T","y","p","e">>, <<"s","n","i">>, <<"a","l","p","n">>,
   <<"f","p">>, <<"p","b","k">>, <<"s","i","d">>, <<"f","l","o","w">>}

SniValues == {<<"a",".","c","o","m">>, <<"b",".","c","o","m">>}

\* Query parameters outside every allow-list (<<>>: none).
UnlistedParams == {<<>>, <<"f","o","o","=","b","a","r">>, <<"t","a","g","=","x">>}

QueryOf(sni, extra) ==
  <<"?","s","n","i","=">> \o sni \o (IF extra = <<>> THEN <<>> ELSE <<"&">> \o extra)

VlessUri(f, sni, extra, remark) ==
  (IF f = "std" THEN <<"v","l","e","s","s",":","/","/","u","u","i","d","@","h","o","s","t",":","4","4","3">> ELSE <<"v","l","e","s","s",":","/","/","/","u","u","i","d","@","h","o","s","t",":","4","4","3">>)
  \o QueryOf(sni, extra) \o remark

TrojanPasswords == {<<"p","w">>, <<"p","%","4","0","w">>}

TrojanSniValues == SniValues \cup {<<"a","%","2","3","b">>}

TrojanUri(pw, sni, extra, remark) ==
  <<"t","r","o","j","a","n",":","/","/">> \o pw \o <<"@","h","o","s","t",":","4","4","3">> \o QueryOf(sni, extra) \o remark

\* URIs of the other schemes, and URIs that fail to parse, without remark.
OtherBodies ==
  { <<"s","s",":","/","/","Y","W","V","z","O","n","B","3","@","h","o","s","t",":","8","3","8","8">>, <<"s","s",":","/","/","a","e","s",":","p","w","@","h","o","s","t",":","8","3","8","8">>,
    <<"s","s",":","/","/","/","Y","W","V","z","O","n","B","3","Q","G","h","v","c","3","Q","6","O","D","M","4","O","A","=","=","?","p","l","u","g","i","n","=","x","&","z","=","1">>, <<"s","s","r",":","/","/","a","b","c","d">>,
    <<"s","o","c","k","s","5",":","/","/","h","o","s","t",":","1","0","8","0","?","b","=","2","&","a","=","1">>, <<"s","o","c","k","s","5",":","/","/","h","o","s","t",":","1","0","8","0","?","q","=","a","%","2","3","b","&","q","=","c">>,
    <<"h","t","t","p",":","/","/","h","/","p",";","x","?","q","=","a","+","b">>, <<"t","r","o","j","a","n",":","/","/","p","w","@","[","h","o","s","t",":","4","4","3","?","f","o","o","=","1">>, <<"1","t","r","o","j","a","n",":","/","/","p","w","@","h","o","s","t",":","4","4","3">>,
    <<"t","r","o","j","a","n",":","/","/","p","w","@","h","o","s","t","?","s","n","i","=","a",".","c","o","m">>, <<"a","b","c">>, <<"v","m","e","s","s",":","/","/","Q">>, <<"v","m","e","s","s",":","/","/","Q","Q">>,
    <<"v","m","e","s","s",":","/","/","e","y","J","h","Z","G","Q","i","O","i","J","o","I","i","w","i","a","W","Q","i","O","i","J","h","Y","m","M","i","f","Q","=","=">> }

Unset == [how |-> "unset", out |-> <<>>]

Differences(a, b, name) == IF a = b THEN {} ELSE {name}

NormStart(f, fm, d, pair) ==
  /\ fam = f /\ form = fm /\ diff = d /\ pairUri = pair
  /\ pairTrace = <<Unset, Unset>>
  /\ pairHash = <<>> /\ pairKey = <<>> /\ pairAgain = <<>> /\ pairV2rayn = <<>>
  /\ npc = "input"

NormInputs ==
  \/ \E a1 \in AidSpellings, p1 \in PsValues \ {<<"\"","n","o","d","e","?","1","\"">>},
        a2 \in AidSpellings, p2 \in PsValues, rev \in BOOLEAN, r2 \in Remarks :
       NormStart("vmess", "std",
                 Differences(a1, a2, "aid") \cup Differences(p1, p2, "ps")
                   \cup Differences(FALSE, rev, "order") \cup Differences(<<>>, r2, "remark"),
                 [i \in {1, 2} |-> VmessUri(<<a1, a2>>[i], <<p1, p2>>[i], i = 2 /\ rev,
                                            <<<<>>, r2>>[i])])
  \/ \E f \in {"std", "path"}, s1 \in SniValues, e1 \in UnlistedParams,
        s2 \in SniValues, e2 \in UnlistedParams, r2 \in Remarks :
       NormStart("vless", f,
                 Differences(s1, s2, "sni") \cup Differences(e1, e2, "unlisted")
                   \cup Differences(<<>>, r2, "remark"),
                 [i \in {1, 2} |-> VlessUri(f, <<s1, s2>>[i], <<e1, e2>>[i], <<<<>>, r2>>[i])])
  \/ \E pw \in TrojanPasswords, s1 \in TrojanSniValues, e1 \in UnlistedParams,
        s2 \in TrojanSniValues, e2 \in UnlistedParams, r2 \in Remarks :
       NormStart("trojan", "std",
                 Differences(s1, s2, "sni") \cup Differences(e1, e2, "unlisted")
                   \cup Differences(<<>>, r2, "remark"),
                 [i \in {1, 2} |-> TrojanUri(pw, <<s1, s2>>[i], <<e1, e2>>[i], <<<<>>, r2>>[i])])
  \/ \E n2 \in {<<>>, <<"\"","t","c","p","\"">>}, t2 \in {<<>>, <<"\"","n","o","n","e","\"">>}, a2 \in {<<>>, <<"\"","0","\"">>},
        rev \in BOOLEAN, r2 \in Remarks :
       NormStart("vmess", "std",
                 Differences(<<>>, n2, "net") \cup Differences(<<>>, t2, "type")
                   \cup Differences(<<>>, a2, "aid") \cup Differences(FALSE, rev, "order")
                   \cup Differences(<<>>, r2, "remark"),
                 <<VmessSpelledUri(<<>>, <<>>, <<>>, FALSE, <<>>),
                   VmessSpelledUri(n2, t2, a2, rev, r2)>>)
  \/ \E f \in {"vless", "trojan", "other"}, fm \in {"std", "path"}, r2 \in Remarks :
       NormStart(f, fm, {"order"} \cup Differences(<<>>, r2, "remark"),
                 <<OrderedBases[f][fm] \o OrderedQueries[1],
                   OrderedBases[f][fm] \o OrderedQueries[2] \o r2>>)
  \/ \E fm \in {"std", "path"}, payload \in SsPayloads, r2 \in Remarks :
       NormStart("ss", fm, {"encoding"} \cup Differences(<<>>, r2, "remark"),
                 <<SsPrefix[fm] \o payload, SsPrefix[fm] \o b64encode(payload) \o r2>>)
  \/ \E p \in AllowListed, r2 \in Remarks :
       NormStart("trojan", "std", {"listed"} \cup Differences(<<>>, r2, "remark"),
                 <<<<"t","r","o","j","a","n",":","/","/","p","w","@","h","o","s","t",":","4","4","3","?">> \o p \o <<"=","a">>,
                   <<"t","r","o","j","a","n",":","/","/","p","w","@","h","o","s","t",":","4","4","3","?">> \o p \o <<"=","b">> \o r2>>)
  \/ \E b \in OtherBodies, r1 \in Remarks, r2 \in Remarks :
       NormStart("other", "std", Differences(r1, r2, "remark"), <<b \o r1, b \o r2>>)

\* normalize_proxy_uri on both inputs.
Normalize ==
  /\ npc = "input"
  /\ pairTrace' = [i \in {1, 2} |-> NormalizeTrace(pairUri[i])]
  /\ npc' = "normalized"
  /\ UNCHANGED <<fam, form, diff, pairUri, pairHash, pairKey, pairAgain, pairV2rayn>>
  /\ UNCHANGED <<fsVars, storeVars, callVars, pipeVars, probeVars, tailVars>>

\* get_proxy_connection_hash on both inputs.
Hash ==
  /\ npc = "normalized"
  /\ pairHash' = [i \in {1, 2} |-> get_proxy_connection_hash(pairUri[i])]
  /\ npc' = "hashed"
  /\ UNCHANGED <<fam, form, diff, pairUri, pairTrace, pairKey, pairAgain, pairV2rayn>>
  /\ UNCHANGED <<fsVars, storeVars, callVars, pipeVars, probeVars, tailVars>>

\* get_openray_dedup_key on both inputs.
DedupKey ==
  /\ npc = "hashed"
  /\ pairKey' = [i \in {1, 2} |-> get_openray_dedup_key(pairUri[i])]
  /\ npc' = "keyed"
  /\ UNCHANGED <<fam, form, diff, pairUri, pairTrace, pairHash, pairAgain, pairV2rayn>>
  /\ UNCHANGED <<fsVars, storeVars, callVars, pipeVars, probeVars, tailVars>>

\* normalize_proxy_uri on its own outputs.
Renormalize ==
  /\ npc = "keyed"
  /\ pairAgain' = [i \in {1, 2} |-> normalize_proxy_uri(pairTrace[i].out)]
  /\ npc' = "renormalized"
  /\ UNCHANGED <<fam, form, diff, pairUri, pairTrace, pairHash, pairKey, pairV2rayn>>
  /\ UNCHANGED <<fsVars, storeVars, callVars, pipeVars, probeVars, tailVars>>

\* get_v2rayn_connection_key on both inputs.
V2raynKey ==
  /\ npc = "renormalized"
  /\ pairV2rayn' = [i \in {1, 2} |-> get_v2rayn_connection_key(pairUri[i])]
  /\ npc' = "v2rayn"
  /\ UNCHANGED <<fam, form, diff, pairUri, pairTrace, pairHash, pairKey, pairAgain>>
  /\ UNCHANGED <<fsVars, storeVars, callVars, pipeVars, probeVars, tailVars>>

InitNorm == NormInputs /\ StoreIdle /\ PipeIdle /\ ProbeIdle /\ TailIdle

NextNorm == Normalize \/ Hash \/ DedupKey \/ Renormalize \/ V2raynKey

SpecNorm == InitNorm /\ [][NextNorm]_vars

(* ------------------------------------------------------------------ *)
(* Properties of the normalizer                                        *)
(* ------------------------------------------------------------------ *)

\* C5: two vmess URIs with the same address, port and id that differ only in
\* the remark, the ps field, the spelling of the default alterId or the key
\* order of the payload have the same connection hash.
C5_VmessCosmeticSameHash ==
  (fam = "vmess" /\ pairHash # <<>>) => pairHash[1] = pairHash[2]

\* C6: two vless URIs vless://uuid@host:port?query that differ only in an
\* unlisted query parameter have the same connection hash, and two that
\* differ in the sni value have different hashes.
C6_VlessUnlistedSameSniDiffers ==
  (fam = "vless" /\ form = "std" /\ pairHash # <<>>) =>
    /\ diff = {"unlisted"} => pairHash[1] = pairHash[2]
    /\ diff = {"sni"} => pairHash[1] # pairHash[2]

\* C7: trojan://pw@host:443?sni=a.com and the same URI with &foo=bar have the
\* same connection hash, the URI with sni=b.com has another one, and trojan
\* URIs that differ only in unlisted query parameters have the same hash.
C7_TrojanUnlistedIgnored ==
  (fam = "trojan" /\ pairHash # <<>>) =>
    /\ diff = {"unlisted"} => pairHash[1] = pairHash[2]
    /\ pairUri = <<<<"t","r","o","j","a","n",":","/","/","p","w","@","h","o","s","t",":","4","4","3","?","s","n","i","=","a",".","c","o","m">>, <<"t","r","o","j","a","n",":","/","/","p","w","@","h","o","s","t",":","4","4","3","?","s","n","i","=","a",".","c","o","m","&","f","o","o","=","b","a","r">>>>
         => pairHash[1] = pairHash[2]
    /\ pairUri = <<<<"t","r","o","j","a","n",":","/","/","p","w","@","h","o","s","t",":","4","4","3","?","s","n","i","=","a",".","c","o","m">>, <<"t","r","o","j","a","n",":","/","/","p","w","@","h","o","s","t",":","4","4","3","?","s","n","i","=","b",".","c","o","m">>>>
         => pairHash[1] # pairHash[2]

\* C7, its case: the pair of the scenario that differs in foo=bar only, both
\* URIs rebuilt by _normalize_trojan, hashed to the same value.
C7_Witness ==
  /\ pairUri = <<<<"t","r","o","j","a","n",":","/","/","p","w","@","h","o","s","t",":","4","4","3","?","s","n","i","=","a",".","c","o","m">>, <<"t","r","o","j","a","n",":","/","/","p","w","@","h","o","s","t",":","4","4","3","?","s","n","i","=","a",".","c","o","m","&","f","o","o","=","b","a","r">>>>
  /\ diff = {"unlisted"}
  /\ pairTrace[1].how = "canonical" /\ pairTrace[2].how = "canonical"
  /\ pairHash # <<>> /\ pairHash[1] = pairHash[2]

C9_Idempotent ==
  pairAgain # <<>> => \A i \in {1, 2} : pairAgain[i] = pairTrace[i].out

\* C10: when parsing fails (urlparse raises, no scheme is found, the payload
\* cannot be decoded or lacks a field), normalize_proxy_uri returns its input
\* cut at the first '#'.
C10_FailureStripsRemark ==
  \A i \in {1, 2} :
    pairTrace[i].how \in {"raised", "noscheme", "fallback"}
      => pairTrace[i].out = split1(pairUri[i], "#")[1]

(* ------------------------------------------------------------------ *)
(* The three key variants on cosmetically different URIs               *)
(* ------------------------------------------------------------------ *)

\* C11: two URIs of the same endpoint that differ only in the remark, in the
\* order of parameters or keys, or in spelling out a default (vmess net "tcp",
\* type "none", aid "0") get the same connection hash, the same dedup key and
\* the same V2RayN key.
C11_CosmeticSameKeys ==
  (pairV2rayn # <<>> /\ diff \subseteq {"remark", "order", "aid", "net", "type"}) =>
    /\ pairHash[1] = pairHash[2]
    /\ pairKey[1] = pairKey[2]
    /\ pairV2rayn[1] = pairV2rayn[2]

(* ------------------------------------------------------------------ *)
(* Shadowsocks payloads in the clear and in base64                     *)
(* ------------------------------------------------------------------ *)

\* C12: the ss URI with the payload method:password@host:port in the clear
\* and the ss URI with the same payload base64-encoded as a whole both
\* normalize to ss://base64(payload), and so have the same connection hash.
C12_SsClearAndEncodedAgree ==
  (fam = "ss" /\ pairHash # <<>>) =>
    /\ \A i \in {1, 2} :
         pairTrace[i].out = <<"s","s",":","/","/">> \o b64encode(From(pairUri[1], Len(SsPrefix[form]) + 1))
    /\ pairHash[1] = pairHash[2]

(* ------------------------------------------------------------------ *)
(* Trojan URIs that differ in an allow-listed parameter                *)
(* ------------------------------------------------------------------ *)

\* C13: two trojan URIs with the same credential, host and port that differ
\* in the value of an allow-listed connection parameter have different
\* connection hashes.
C13_TrojanListedValueDiffers ==
  (fam = "trojan" /\ "listed" \in diff /\ pairHash # <<>>) => pairHash[1] # pairHash[2]

(* ------------------------------------------------------------------ *)
(* The store under sequences of loads and appends                      *)
(* ------------------------------------------------------------------ *)

\* The longest sequence of calls.
MaxOps == 3

\* The highest numbered text segment of a store at the start.
MaxSeg == 1

\* The lists an append is called with: hashes as sha1_hex spells them, scaled
\* to two characters, and the first of them in capital letters.
Batches ==
  { <<HashText(<<"a","1">>)>>, <<HashText(<<"b","2">>)>>, <<HashText(<<"c","3">>)>>, <<HashText(<<"A","1">>)>>, <<HashText(<<"a","1">>), HashText(<<"b","2">>)>>, <<HashText(<<"c","3">>), HashText(<<"c","3">>), HashText(<<"b","2">>)>> }

\* The text files a directory may hold at the start: none, a legacy file of
\* one line and a full one.
LegacyTexts == { <<>>, <<HashText(<<"a","1">>)>>, <<HashText(<<"b","2">>)>>, <<HashText(<<"a","1">>), HashText(<<"b","2">>), HashText(<<"c","3">>)>> }

\* The binary files a directory may hold at the start.
LegacyBins ==
  { <<>>, struct_pack(StartTime, hash_to_bytes(HashText(<<"a","1">>)).bytes),
    struct_pack(StartTime, hash_to_bytes(HashText(<<"c","3">>)).bytes) }

\* The files named in names, each with the content chosen for it; an empty
\* content stands for no file.
FilesOf(names, content) == [f \in {g \in names : content[g] # <<>>} |-> content[f]]

InitStore ==
  /\ context \in {"main", "iran"}
  /\ \E t \in [({get_state_dir(context)} \X (0..MaxSeg)) \cup {<<".state", 0>>} -> LegacyTexts],
        b \in [{<<get_state_dir(context), 0>>, <<".state", 0>>} -> LegacyBins] :
       /\ textFiles = FilesOf(DOMAIN t, t)
       /\ binFiles = FilesOf(DOMAIN b, b)
  /\ loaded = {} /\ returned = {} /\ appended = {}
  /\ fromEmpty = (DOMAIN textFiles = {} /\ DOMAIN binFiles = {})
  /\ lastOp = "none" /\ ops = 0
  /\ NoCall /\ NormIdle /\ PipeIdle /\ ProbeIdle /\ TailIdle

\* A call of load_tested_hashes_optimized().
LoadHashes ==
  /\ ops < MaxOps
  /\ \E r \in {load_tested_hashes_optimized(textFiles, binFiles, context, now, NoFault)} :
       /\ loaded' = r.tested
       /\ returned' = returned \cup r.tested
       /\ binFiles' = r.bin
  /\ lastOp' = "load" /\ ops' = ops + 1
  /\ UNCHANGED <<context, textFiles, appended, fromEmpty, callVars, normVars, pipeVars, probeVars, tailVars>>

\* A call of append_tested_hashes_optimized(batch).
AppendHashes ==
  /\ ops < MaxOps
  /\ \E batch \in Batches :
       /\ binFiles' = append_tested_hashes_optimized(textFiles, binFiles, context, batch,
                                                     now, NoFault).bin
       /\ appended' = appended \cup SeqRange(batch)
  /\ lastOp' = "append" /\ ops' = ops + 1
  /\ UNCHANGED <<context, textFiles, loaded, returned, fromEmpty, callVars, normVars, pipeVars, probeVars, tailVars>>

NextStore == LoadHashes \/ AppendHashes

SpecStore == InitStore /\ [][NextStore]_vars

(* ------------------------------------------------------------------ *)
(* The store under failing reads and writes, interruption and cleanup   *)
(* ------------------------------------------------------------------ *)

\* The longest sequence of calls on a store with failures.
MaxCalls == 2

\* The days the clock may advance.
MaxDays == 1

Day == 24 * 60 * 60

\* Six hashes as sha1_hex spells them.
SampleHash ==
  [a |-> HashText(<<"a","1">>), b |-> HashText(<<"b","2">>), c |-> HashText(<<"c","3">>),
   d |-> HashText(<<"d","4">>), e |-> HashText(<<"e","5">>), f |-> HashText(<<"f","6">>)]

\* The entry that an append at time timestamp wrote for hash_str.
EntryOf(timestamp, hash_str) == struct_pack(timestamp, hash_to_bytes(hash_str).bytes)

\* The state directories at the start, segment number to content: a single
\* legacy text segment; a binary file with three stray bytes beside its text
\* file; a binary file of four entries, two of them 35 days old; a full text
\* segment with the binary segment that appends rotated to; two segments of
\* which one has both forms; and no file.
MaintStores ==
  LET old == StartTime - 35 * Day
      recent == StartTime - Day
      h == SampleHash
  IN { [text |-> (0 :> <<h.a, h.b>>), bin |-> <<>>],
       [text |-> (0 :> <<h.a, h.b>>), bin |-> (0 :> (EntryOf(recent, h.c) \o <<1, 2, 3>>))],
       [text |-> <<>>,
        bin |-> (0 :> (EntryOf(old, h.a) \o EntryOf(recent, h.b) \o EntryOf(old, h.c)
                       \o EntryOf(recent, h.d)))],
       [text |-> (0 :> <<h.a, h.b, h.c>>), bin |-> (1 :> EntryOf(old, h.d))],
       [text |-> (0 :> <<h.a>>) @@ (1 :> <<h.c>>), bin |-> (0 :> EntryOf(recent, h.b))],
       [text |-> <<>>, bin |-> <<>>] }

\* The main .state directory beside .state_iran at the start.
SiblingStores ==
  { [text |-> <<>>, bin |-> <<>>],
    [text |-> (0 :> <<SampleHash.e>>), bin |-> <<>>],
    [text |-> (0 :> <<SampleHash.a>>), bin |-> (0 :> EntryOf(StartTime - Day, SampleHash.f))] }

\* The files of directory dir with the contents given by segment number.
FilesIn(dir, content) == [f \in {dir} \X DOMAIN content |-> content[f[2]]]

\* The lists an append is called with.
MaintBatches ==
  { <<SampleHash.e>>, <<SampleHash.f>>, <<SampleHash.a, SampleHash.e>> }

\* The failures one call may meet: none, a binary file that raises after
\* some entries were read, or files that cannot be opened for writing.
FaultsOf(bin) ==
  {NoFault, [unreadable |-> {}, read |-> 0, write_ok |-> FALSE]}
  \cup {[unreadable |-> {f}, read |-> n, write_ok |-> TRUE] : f \in DOMAIN bin, n \in {0, 1}}

InitMaint ==
  /\ context \in {"main", "iran"}
  /\ \E own \in MaintStores,
        sibling \in IF context = "main" THEN {[text |-> <<>>, bin |-> <<>>]} ELSE SiblingStores :
       /\ textFiles = FilesIn(get_state_dir(context), own.text) @@ FilesIn(".state", sibling.text)
       /\ binFiles = FilesIn(get_state_dir(context), own.bin) @@ FilesIn(".state", sibling.bin)
  /\ loaded = {} /\ returned = {} /\ appended = {}
  /\ fromEmpty = (DOMAIN textFiles = {} /\ DOMAIN binFiles = {})
  /\ lastOp = "none" /\ ops = 0
  /\ NoCall /\ NormIdle /\ PipeIdle /\ ProbeIdle /\ TailIdle

\* A day passes.
Tick ==
  /\ now < StartTime + MaxDays * Day
  /\ now' = now + Day
  /\ lastOp' = "tick"
  /\ UNCHANGED <<io, textBefore, binBefore, written, days_to_keep, removed, fsVars,
                 loaded, returned, appended, fromEmpty, ops, normVars, pipeVars, probeVars, tailVars>>

\* A call of load_tested_hashes_optimized() that may meet a failure.
LoadWithFaults ==
  /\ ops < MaxCalls
  /\ \E fault \in FaultsOf(binFiles) :
       /\ io' = fault
       /\ \E r \in {load_tested_hashes_optimized(textFiles, binFiles, context, now, fault)} :
            /\ loaded' = r.tested
            /\ returned' = returned \cup r.tested
            /\ binFiles' = r.bin
  /\ textBefore' = textFiles /\ binBefore' = binFiles
  /\ lastOp' = "load" /\ ops' = ops + 1
  /\ UNCHANGED <<context, textFiles, appended, fromEmpty, now, written, days_to_keep, removed,
                 normVars, pipeVars, probeVars, tailVars>>

\* A call of append_tested_hashes_optimized(batch) that may meet a failure.
AppendWithFaults ==
  /\ ops < MaxCalls
  /\ \E batch \in MaintBatches, fault \in FaultsOf(binFiles) :
       /\ io' = fault
       /\ \E r \in {append_tested_hashes_optimized(textFiles, binFiles, context, batch,
                                                   now, fault)} :
            /\ textFiles' = r.text
            /\ binFiles' = r.bin
       /\ appended' = appended \cup SeqRange(batch)
  /\ textBefore' = textFiles /\ binBefore' = binFiles
  /\ lastOp' = "append" /\ ops' = ops + 1
  /\ UNCHANGED <<context, loaded, returned, fromEmpty, now, written, days_to_keep, removed,
                 normVars, pipeVars, probeVars, tailVars>>

\* A call of append_tested_hashes_optimized(batch) in which the process is
\* stopped while the entries are written (lines 336 to 338): the file was
\* opened for appending, and the first cut entries have reached it.
AppendInterrupted ==
  /\ ops < MaxCalls
  /\ \E batch \in MaintBatches :
       \E w \in {NewEntries(textFiles, binFiles, context, batch, now, NoFault)} :
         /\ Len(w.new_entries) > 0
         /\ \E cut \in 0..Len(w.new_entries) :
              binFiles' = (w.bin_file :> (BytesOf(w.bin, w.bin_file)
                                          \o Flatten(SubSeq(w.new_entries, 1, cut)))) @@ w.bin
         /\ written' = [file |-> w.bin_file, old |-> BytesOf(w.bin, w.bin_file),
                        data |-> Flatten(w.new_entries)]
         /\ appended' = appended \cup SeqRange(batch)
  /\ io' = NoFault /\ textBefore' = textFiles /\ binBefore' = binFiles
  /\ lastOp' = "interrupted" /\ ops' = ops + 1
  /\ UNCHANGED <<context, textFiles, loaded, returned, fromEmpty, now, days_to_keep, removed,
                 normVars, pipeVars, probeVars, tailVars>>

\* A call of cleanup_old_hashes(days).
CleanupOldHashes ==
  /\ ops < MaxCalls
  /\ \E days \in {1, 30}, fault \in FaultsOf(binFiles) :
       /\ io' = fault /\ days_to_keep' = days
       /\ \E r \in {cleanup_old_hashes(binFiles, context, days, now, fault)} :
            /\ binFiles' = r.bin
            /\ removed' = r.removed_count
  /\ textBefore' = textFiles /\ binBefore' = binFiles
  /\ lastOp' = "cleanup" /\ ops' = ops + 1
  /\ UNCHANGED <<context, textFiles, loaded, returned, appended, fromEmpty, now, written,
                 normVars, pipeVars, probeVars, tailVars>>

NextMaint == Tick \/ LoadWithFaults \/ AppendWithFaults \/ AppendInterrupted \/ CleanupOldHashes

SpecMaint == InitMaint /\ [][NextMaint]_vars

(* ------------------------------------------------------------------ *)
(* Properties of the store                                             *)
(* ------------------------------------------------------------------ *)

\* C3: without a cleanup, a hash that a load has once returned is returned by
\* every later load, whatever mix of legacy text, binary and numbered
\* segments the store holds.
C3_LoadsMonotone ==
  lastOp = "load" => returned \subseteq loaded

SegmentSize(text, bin, f) ==
  LET TextSize == IF f \in DOMAIN text THEN 41 * Len(text[f]) ELSE 0
      BinSize == IF f \in DOMAIN bin THEN Len(bin[f]) ELSE 0
  IN IF TextSize >= BinSize THEN TextSize ELSE BinSize

\* C14: an append leaves every segment that had reached the threshold as it
\* was: no segment keeps receiving records after it has reached the threshold.
C14_FullSegmentClosed ==
  [][lastOp' = "append" =>
       \A f \in DOMAIN textFiles \cup DOMAIN binFiles :
         SegmentSize(textFiles, binFiles, f) >= 41 * max_size_lines =>
           /\ f \in DOMAIN binFiles => (f \in DOMAIN binFiles' /\ binFiles'[f] = binFiles[f])
           /\ f \in DOMAIN textFiles => (f \in DOMAIN textFiles' /\ textFiles'[f] = textFiles[f])
           /\ f \notin DOMAIN binFiles => f \notin DOMAIN binFiles']_vars

\* The hashes a segment holds: those of the whole records of its binary
\* file when it has one, else those of the lines of its text file.
SegmentHashes(text, bin, f) ==
  IF f \in DOMAIN bin
    THEN {bytes_to_hash(SubSeq(bin[f], entry_size * k - hash_size + 1, entry_size * k)) :
            k \in 1..(Len(bin[f]) \div entry_size)}
    ELSE LinesOf(text, f)

\* The segments of the state directory of context c and of the main .state
\* directory.
SegmentsOf(text, bin, c) ==
  {f \in DOMAIN text \cup DOMAIN bin : f[1] = get_state_dir(c) \/ f[1] = ".state"}

\* C15: when reading one segment's binary file fails, the load returns the
\* hashes of that segment's text file and the hashes of every other segment
\* of both state directories, and nothing that no segment holds.
C15_OneCorruptSegment ==
  (lastOp = "load" /\ io.unreadable # {}) =>
    /\ \A f \in SegmentsOf(textBefore, binBefore, context) \ io.unreadable :
         SegmentHashes(textBefore, binBefore, f) \subseteq loaded
    /\ \A f \in io.unreadable : LinesOf(textBefore, f) \subseteq loaded
    /\ loaded \subseteq
         UNION {SegmentHashes(textBefore, binBefore, f) \cup LinesOf(textBefore, f) :
                  f \in SegmentsOf(textBefore, binBefore, context)}

\* C15, its case: of two segments the first has a binary file that cannot be
\* read; its text file and the second segment are loaded.
C15_Witness ==
  /\ lastOp = "load" /\ context = "main" /\ io.unreadable = {<<".state", 0>>} /\ io.read = 0
  /\ <<".state", 1>> \in DOMAIN textBefore
  /\ loaded = {SampleHash.a, SampleHash.c}

\* C16: a load takes the hashes of a segment whose binary file is not a
\* whole number of 28-byte records from the segment's text file, not from
\* the binary file.
C16_OddLengthIsCorrupt ==
  (lastOp = "load" /\ io = NoFault) =>
    LET Odd(f) == f \in DOMAIN binBefore /\ Len(binBefore[f]) % entry_size # 0
    IN loaded = UNION {IF Odd(f) THEN LinesOf(textBefore, f)
                                 ELSE SegmentHashes(textBefore, binBefore, f) :
                         f \in SegmentsOf(textBefore, binBefore, context)}

\* C17: a load in the secondary context returns the hashes of every segment
\* of .state_iran and of every segment of .state, and so contains what a
\* load of the same files in the primary context returns.
C17_SecondaryLoadsBoth ==
  (lastOp = "load" /\ io = NoFault /\ context = "iran") =>
    /\ loaded = UNION {SegmentHashes(textBefore, binBefore, f) :
                         f \in {g \in DOMAIN textBefore \cup DOMAIN binBefore :
                                  g[1] \in {".state_iran", ".state"}}}
    /\ load_tested_hashes_optimized(textBefore, binBefore, "main", now, NoFault).tested
         \subseteq loaded

\* C17, its case: .state_iran holds a text segment and .state another, and
\* the load in the secondary context returns the hashes of both.
C17_Witness ==
  /\ lastOp = "load" /\ io = NoFault /\ context = "iran"
  /\ <<".state_iran", 0>> \in DOMAIN textBefore /\ <<".state", 0>> \in DOMAIN textBefore
  /\ loaded = {SampleHash.a, SampleHash.b, SampleHash.e}
  /\ load_tested_hashes_optimized(textBefore, binBefore, "main", now, NoFault).tested
       = {SampleHash.e}

\* The records of the binary segments of the state directory of context c:
\* a file and a position in it for each.
RecordsIn(bin, c) ==
  UNION {{f} \X (1..Len(ReadEntries(bin[f]))) : f \in {g \in DOMAIN bin : g[1] = get_state_dir(c)}}

\* C18: after cleanup_old_hashes(days_to_keep) no binary record of the state
\* directory is older than the cutoff, each segment holds the records it
\* held that are not older, in their order and unchanged, and the count
\* returned is the number of records removed.
C18_CleanupRemovesOld ==
  lastOp = "cleanup" =>
    LET cutoff_time == now - days_to_keep * Day
        Recent(e) == struct_unpack(e).timestamp >= cutoff_time
    IN /\ \A r \in RecordsIn(binFiles, context) : Recent(ReadEntries(binFiles[r[1]])[r[2]])
       /\ \A f \in {g \in DOMAIN binBefore : g[1] = get_state_dir(context)} :
            /\ f \in DOMAIN binFiles
            /\ ReadEntries(binFiles[f]) = SelectSeq(ReadEntries(binBefore[f]), Recent)
       /\ removed = Cardinality(RecordsIn(binBefore, context))
                      - Cardinality(RecordsIn(binFiles, context))

\* C19: a load of a store that is one legacy text segment, with no binary
\* file, returns the hashes of its lines; it leaves the binary file of the
\* state directory holding one record for each of them, stamped with the
\* time of the load, or, when that file cannot be written, no binary file.
C19_FirstLoadMigrates ==
  (/\ lastOp = "load"
   /\ Cardinality(SegmentsOf(textBefore, binBefore, context)) = 1
   /\ SegmentsOf(textBefore, binBefore, context) \cap DOMAIN binBefore = {}) =>
    LET tested_bin_file == <<get_state_dir(context), 0>>
        Written == ReadEntries(BytesOf(binFiles, tested_bin_file))
    IN /\ loaded = UNION {LinesOf(textBefore, f) : f \in SegmentsOf(textBefore, binBefore, context)}
       /\ io.write_ok =>
            /\ Len(BytesOf(binFiles, tested_bin_file)) = entry_size * Cardinality(loaded)
            /\ SegmentHashes(textFiles, binFiles, tested_bin_file) = loaded
            /\ \A i \in 1..Len(Written) : struct_unpack(Written[i]).timestamp = now
       /\ ~io.write_ok => binFiles = binBefore

\* C19, its case: a day after the start a store of one text segment of two
\* hashes is loaded and gets a binary file of two records.
C19_Witness ==
  /\ lastOp = "load" /\ io = NoFault /\ now = StartTime + Day /\ context = "main"
  /\ DOMAIN textBefore = {<<".state", 0>>} /\ DOMAIN binBefore = {}
  /\ loaded = {SampleHash.a, SampleHash.b}
  /\ DOMAIN binFiles = {<<".state", 0>>}
  /\ binFiles[<<".state", 0>>] \in {EntryOf(now, SampleHash.a) \o EntryOf(now, SampleHash.b),
                                    EntryOf(now, SampleHash.b) \o EntryOf(now, SampleHash.a)}

\* C20: when an append to a tested segment is interrupted, the file it was
\* writing holds either the bytes it held before or those bytes followed by
\* all the new records.
C20_WritesAreAtomic ==
  lastOp = "interrupted" =>
    BytesOf(binFiles, written.file) \in {written.old, written.old \o written.data}

\* The files of the main state directory, with their contents.
PrimaryFiles(files) == [f \in {g \in DOMAIN files : g[1] = ".state"} |-> files[f]]

\* C38: a call on the store in the Iran context, an append or a load with
\* its migration, creates and changes only files of .state_iran: the
\* segments of .state stay as they were.
C38_SecondaryWritesOwnDir ==
  [][context = "iran" =>
       /\ PrimaryFiles(textFiles') = PrimaryFiles(textFiles)
       /\ PrimaryFiles(binFiles') = PrimaryFiles(binFiles)]_vars

\* An append in the Iran context has written an entry to .state_iran and has
\* held back a hash that a text segment of .state has.
C38_Witness ==
  /\ context = "iran" /\ lastOp = "append" /\ io = NoFault
  /\ \E f \in DOMAIN binFiles :
       f[1] = ".state_iran" /\ binFiles[f] # BytesOf(binBefore, f)
  /\ \E f \in DOMAIN textFiles, h \in appended :
       /\ f[1] = ".state" /\ h \in SeqRange(textFiles[f])
       /\ \A g \in DOMAIN binFiles :
            g[1] = ".state_iran" => h \notin TestedOf(<<>>, binFiles, {g})

\* A load in the Iran context has migrated the hashes of a text segment of
\* .state to a binary file of .state_iran.
C38_WitnessMigration ==
  /\ context = "iran" /\ lastOp = "load" /\ io = NoFault
  /\ binFiles # binBefore
  /\ \E f \in DOMAIN textFiles : f[1] = ".state" /\ SeqRange(textFiles[f]) \subseteq loaded
  /\ \A f \in DOMAIN textBefore \cup DOMAIN binBefore : f[1] = ".state"

(* ------------------------------------------------------------------ *)
(* Runs of the main pipeline                                           *)
(* ------------------------------------------------------------------ *)

\* The number of runs.
MaxRuns == 2

\* The highest NEW_URIS_LIMIT (0: the limit is off).
MaxLimit == 1

\* What extract_uris finds in the sources of a run.
Extracts ==
  { <<>>, <<PipeUris[1]>>, <<PipeUris[2], PipeUris[3]>>, <<PipeUris[4]>>,
    <<PipeUris[3], PipeUris[4], PipeUris[1]>> }

\* The available-proxy file at the start: lines as the pipeline wrote them,
\* and a file in which a merge has left a marker line.
AvailableStarts ==
  { <<>>, <<_set_remark(PipeUris[1], <<"[","O","p","e","n","R","a","y","]">>)>>,
    <<_set_remark(PipeUris[3], <<"[","O","p","e","n","R","a","y","]">>), _set_remark(PipeUris[1], <<"[","O","p","e","n","R","a","y","]">>)>>,
    <<_set_remark(PipeUris[3], <<"[","O","p","e","n","R","a","y","]">>), _set_remark(PipeUris[4], <<"[","O","p","e","n","R","a","y","]">>)>>,
    <<_set_remark(PipeUris[1], <<"[","O","p","e","n","R","a","y","]">>), MarkerLine>> }

\* The tested-identity store at the start: none, a legacy text file, two
\* legacy text segments, a binary file.
StoreStarts ==
  { [text |-> <<>>, bin |-> <<>>],
    [text |-> (<<".state", 0>> :> <<HashText(<<"0","1">>)>>), bin |-> <<>>],
    [text |-> (<<".state", 0>> :> <<HashText(<<"0","1">>)>>) @@ (<<".state", 1>> :> <<HashText(<<"0","3">>)>>),
     bin |-> <<>>],
    [text |-> <<>>,
     bin |-> (<<".state", 0>> :> struct_pack(StartTime, hash_to_bytes(HashText(<<"0","4">>)).bytes))] }

InitPipe ==
  /\ dedupKey = [line \in PipeLines |-> get_openray_dedup_key(line)]
  /\ connHash = [line \in PipeLines |-> HexDigest(line)]
  /\ context = "main"
  /\ \E s \in StoreStarts : textFiles = s.text /\ binFiles = s.bin
  /\ availableFile \in AvailableStarts
  /\ ppc = "idle" /\ runs = 0 /\ fileBefore = <<>> /\ reval = NoRevalidation
  /\ tested_hashes = {} /\ new_uris = <<>> /\ new_hashes = <<>>
  /\ available_to_add = <<>> /\ recorded = {}
  /\ loaded = {} /\ returned = {} /\ appended = {} /\ fromEmpty = TRUE
  /\ lastOp = "none" /\ ops = 0
  /\ NoCall
  /\ NormIdle /\ ProbeIdle /\ TailIdle

\* main() starts: the pre-flight connectivity probe (lines 201 to 212).
Preflight ==
  /\ ppc \in {"idle", "ended", "aborted"} /\ runs < MaxRuns
  /\ runs' = runs + 1
  /\ \E has_connectivity \in BOOLEAN :
       /\ preflight' = IF has_connectivity THEN "ok" ELSE "failed"
       /\ ppc' = after_preflight(has_connectivity)
  /\ reval' = NoRevalidation /\ fileBefore' = availableFile
  /\ tested_hashes' = {} /\ new_uris' = <<>> /\ new_hashes' = <<>> /\ available_to_add' = <<>>
  /\ host_success_run' = <<>> /\ streakSaved' = FALSE /\ streakProbe' = "none"
  /\ UNCHANGED <<availableFile, recorded, dedupKey, connHash, fsVars, storeVars, callVars,
                 normVars, poolVars, streaksFile, countsFile, iranCountsFile, top100File,
                 iranTop100File, proxies, active_proxies, v2raynKey>>

\* The revalidation of the available proxies (lines 217 to 349): do_recheck
\* is the environment switch, passed the positions of the lines that pass
\* ping, connect and the protocol probe, survivors those that pass every
\* stage, has_connectivity the result of the probe of the guard.
Revalidate ==
  /\ ppc = "revalidate"
  /\ \E do_recheck \in BOOLEAN, has_connectivity \in BOOLEAN :
       \E existing_lines \in {IF do_recheck THEN deduplicated_existing(availableFile) ELSE <<>>} :
         \E passed \in SUBSET items_of(existing_lines) : \E survivors \in SUBSET passed :
           \E alive \in {Pick(existing_lines, Positions(existing_lines, LAMBDA i : i \in survivors))} :
             /\ host_success_run' = host_flags(<<>>, existing_lines, passed)
             /\ availableFile' = revalidated_file(availableFile, existing_lines, alive,
                                                  has_connectivity)
             /\ reval' = [ran |-> Len(existing_lines) > 0, existing |-> Len(existing_lines),
                          alive |-> Len(alive), survivors |-> SeqRange(alive),
                          probed |-> {existing_lines[k] : k \in items_of(existing_lines)},
                          connectivity |-> has_connectivity]
  /\ fileBefore' = availableFile
  /\ ppc' = "select"
  /\ UNCHANGED <<runs, tested_hashes, new_uris, new_hashes, available_to_add, recorded,
                 dedupKey, connHash, fsVars, storeVars, callVars, normVars, poolVars, tailVars>>

\* The tested hashes are loaded and the sources are filtered (lines 351 to
\* 413).
SelectNew ==
  /\ ppc = "select"
  /\ \E r \in {load_tested_hashes_optimized(textFiles, binFiles, context, now, NoFault)} :
       /\ tested_hashes' = r.tested
       /\ binFiles' = r.bin
       /\ \E extracted \in Extracts, limit \in 0..MaxLimit :
            \E c \in {new_candidates(extracted, r.tested)} :
              /\ new_uris' = limited(c.uris, limit)
              /\ new_hashes' = limited(c.hashes, limit)
  /\ ppc' = "probe"
  /\ UNCHANGED <<availableFile, runs, fileBefore, reval, available_to_add, recorded,
                 dedupKey, connHash, context, textFiles, storeVars, callVars, normVars, probeVars, tailVars>>

\* The new URIs are probed (lines 415 to 510): passed are the positions of
\* those that pass ping, connect and the protocol probe, reachable those
\* that pass every stage.
ProbeNew ==
  /\ ppc = "probe"
  /\ \E passed \in SUBSET items_of(new_uris) : \E reachable \in SUBSET passed :
       /\ host_success_run' = host_flags(host_success_run, new_uris, passed)
       /\ available_to_add' = Pick(new_uris, Positions(new_uris, LAMBDA i : i \in reachable))
  /\ ppc' = "publish"
  /\ UNCHANGED <<availableFile, runs, fileBefore, reval, tested_hashes, new_uris, new_hashes,
                 recorded, dedupKey, connHash, fsVars, storeVars, callVars, normVars, poolVars,
                 tailVars>>

\* The reachable URIs are appended to the available-proxy file (lines 512 to
\* 566).
Publish ==
  /\ ppc = "publish"
  /\ availableFile' = availableFile \o formatted_to_append(availableFile, available_to_add)
  /\ ppc' = "record"
  /\ UNCHANGED <<runs, fileBefore, reval, tested_hashes, new_uris, new_hashes,
                 available_to_add, recorded, dedupKey, connHash, fsVars, storeVars, callVars, normVars, probeVars, tailVars>>

\* The hashes of the new URIs are recorded (lines 585 to 589).
Record ==
  /\ ppc = "record"
  /\ binFiles' = append_tested_hashes_optimized(textFiles, binFiles, context, new_hashes,
                                                now, NoFault).bin
  /\ recorded' = recorded \cup SeqRange(new_hashes)
  /\ ppc' = "streaks"
  /\ UNCHANGED <<availableFile, runs, fileBefore, reval, tested_hashes, new_uris, new_hashes,
                 available_to_add, dedupKey, connHash, context, textFiles, storeVars, callVars, normVars, probeVars, tailVars>>

\* The streaks are updated (lines 591 to 609); streaks is what load_streaks
\* read at line 214, the records of the file.
UpdateStreaks ==
  /\ ppc = "streaks"
  /\ \E has_connectivity \in BOOLEAN :
       \E r \in {update_streaks(streaksFile, host_success_run, has_connectivity, now)} :
         /\ streaksFile' = r.file
         /\ streakSaved' = r.saved
         /\ streakProbe' = r.probe
  /\ ppc' = "counts"
  /\ UNCHANGED <<preflight, countsFile, iranCountsFile, top100File, iranTop100File, proxies,
                 active_proxies, v2raynKey, availableFile, runs, fileBefore, reval, tested_hashes,
                 new_uris, new_hashes, available_to_add, recorded, dedupKey, connHash,
                 probeVars, fsVars, storeVars, callVars, normVars>>

\* The check counts and the ranking (lines 611 to 619): current_available is
\* the set load_existing_available() returns, and both functions iterate it
\* in the order of the set. The run ends.
UpdateCounts ==
  /\ ppc = "counts"
  /\ \E current_available \in Orders(SeqRange(availableFile)) :
       IF Len(current_available) > 0
         THEN \E counts \in {_update_check_counts_for_proxies(countsFile, current_available,
                                                              "main")} :
                /\ countsFile' = counts
                /\ top100File' = _write_top100_by_checks(counts, current_available, top100File)
                /\ proxies' = current_available
                /\ active_proxies' = current_available
         ELSE UNCHANGED <<countsFile, top100File, proxies, active_proxies>>
  /\ ppc' = "ended"
  /\ UNCHANGED <<preflight, streaksFile, streakSaved, streakProbe, iranCountsFile, iranTop100File,
                 v2raynKey, availableFile, runs, fileBefore, reval, tested_hashes,
                 new_uris, new_hashes, available_to_add, recorded, dedupKey, connHash,
                 probeVars, fsVars, storeVars, callVars, normVars>>

NextPipe ==
  \/ Preflight \/ Revalidate \/ SelectNew \/ ProbeNew \/ Publish \/ Record
  \/ UpdateStreaks \/ UpdateCounts

SpecPipe == InitPipe /\ [][NextPipe]_vars

(* ------------------------------------------------------------------ *)
(* A pool of candidate checks                                          *)
(* ------------------------------------------------------------------ *)

\* The items (uri, host) a pool is given: one candidate, two candidates of
\* one host, and a candidate of a scheme without a connect stage beside one
\* with it.
ProbeItemLists ==
  { << <<<<"t","r","o","j","a","n",":","/","/","p","w","@","h","o","s","t",":","4","4","3">>, "host">> >>,
    << <<<<"t","r","o","j","a","n",":","/","/","p","w","@","h","o","s","t",":","4","4","3">>, "host">>, <<<<"V","L","E","S","S",":","/","/","u","u","i","d","@","h","o","s","t",":","8","4","4","3">>, "host">> >>,
    << <<<<"h","t","t","p",":","/","/","o","t","h","e","r",":","8","0">>, "other">>, <<<<"t","r","o","j","a","n",":","/","/","p","w","@","h","o","s","t",":","4","4","3">>, "host">> >> }

\* The hosts of a list of items.
HostsOf(items) == {items[i][2] : i \in 1..Len(items)}

InitProbe ==
  /\ \E kind \in {"existing", "new"}, enable_stage2 \in BOOLEAN, enable_stage3 \in BOOLEAN,
        items \in ProbeItemLists :
       /\ probeConf = [kind |-> kind, enable_stage2 |-> enable_stage2,
                       enable_stage3 |-> enable_stage3, items |-> items]
       /\ workers = [i \in 1..Len(items) |-> [pc |-> "ping", result |-> "none", attempts |-> <<>>]]
       /\ calls = [i \in 1..Len(items) |->
                     [join |-> "waiting", returned |-> "none", abandoned |-> FALSE]]
       \* lines 243 to 245: the hosts of existing proxies start as not successful
       /\ host_success_run = IF kind = "existing" THEN [h \in HostsOf(items) |-> FALSE] ELSE <<>>
  /\ collected = 0 /\ alive_list = <<>> /\ core_results = <<>> /\ probePc = "pool"
  /\ NormIdle /\ StoreIdle /\ PipeIdle /\ TailIdle

\* The thread of item i runs its next stage, which has some outcome.
WorkerStage ==
  /\ probePc # "idle"
  /\ \E i \in 1..Len(workers), out \in {"ok", "fail", "raise"} :
       /\ workers[i].pc # "done"
       /\ \E r \in {IF probeConf.kind = "existing"
                      THEN _check_proxy_operation(probeConf.items[i][1], workers[i].pc, out,
                                                  probeConf.enable_stage2)
                      ELSE _check_new_proxy_operation(probeConf.items[i][1], workers[i].pc, out,
                                                      probeConf.enable_stage2)} :
            workers' = [workers EXCEPT ![i] =
                          [pc |-> r.pc, result |-> r.result,
                           attempts |-> Append(workers[i].attempts, <<workers[i].pc, out>>)]]
  /\ UNCHANGED <<probeConf, calls, collected, alive_list, host_success_run, core_results, probePc,
                 normVars, fsVars, storeVars, callVars, pipeVars, tailVars>>

\* thread.join(10.0) of item i returns because the thread has ended.
JoinFinished ==
  /\ \E i \in 1..Len(calls) :
       /\ calls[i].join = "waiting" /\ workers[i].pc = "done"
       /\ calls' = [calls EXCEPT ![i].join = "finished"]
  /\ UNCHANGED <<probeConf, workers, collected, alive_list, host_success_run, core_results, probePc,
                 normVars, fsVars, storeVars, callVars, pipeVars, tailVars>>

\* thread.join(10.0) of item i returns because ten seconds have passed while
\* the thread was running.
JoinTimedOut ==
  /\ \E i \in 1..Len(calls) :
       /\ calls[i].join = "waiting" /\ workers[i].pc # "done"
       /\ calls' = [calls EXCEPT ![i].join = "timed_out"]
  /\ UNCHANGED <<probeConf, workers, collected, alive_list, host_success_run, core_results, probePc,
                 normVars, fsVars, storeVars, callVars, pipeVars, tailVars>>

\* The call of item i tests thread.is_alive() and returns.
Return ==
  /\ \E i \in 1..Len(calls) :
       /\ calls[i].join # "waiting" /\ calls[i].returned = "none"
       /\ calls' = [calls EXCEPT ![i] =
                      [join |-> calls[i].join,
                       returned |-> call_result(probeConf.kind, workers[i].pc # "done",
                                             workers[i].result),
                       abandoned |-> workers[i].pc # "done"]]
  /\ UNCHANGED <<probeConf, workers, collected, alive_list, host_success_run, core_results, probePc,
                 normVars, fsVars, storeVars, callVars, pipeVars, tailVars>>

\* The loop over pool.map takes the next result, in the order of the items
\* (lines 299 to 304 and 472 to 478); an exception of the call leaves main().
Collect ==
  /\ probePc = "pool" /\ collected < Len(calls)
  /\ \E i \in {collected + 1} :
       \E res \in {calls[i].returned}, u \in {probeConf.items[i][1]}, h \in {probeConf.items[i][2]} :
         /\ res # "none"
         /\ collected' = i
         /\ alive_list' = IF res = "ok" THEN Append(alive_list, u) ELSE alive_list
         /\ host_success_run' =
              IF res = "raised" THEN host_success_run
              ELSE IF res = "ok" THEN (h :> TRUE) @@ host_success_run
              ELSE IF probeConf.kind = "new" /\ h \notin DOMAIN host_success_run
                THEN (h :> FALSE) @@ host_success_run
              ELSE host_success_run
         /\ probePc' = IF res = "raised" THEN "crashed"
                       ELSE IF i < Len(calls) THEN "pool"
                       ELSE IF probeConf.enable_stage3 /\ Len(alive_list') > 0 THEN "core"
                       ELSE "persist"
  /\ UNCHANGED <<probeConf, workers, calls, core_results,
                 normVars, fsVars, storeVars, callVars, pipeVars, tailVars>>

\* Stage 3 (lines 306 to 334 and 482 to 510): every URI that passed is given
\* to validate_with_v2ray_core, and those for which it returned True stay.
\* _core_check runs the call in the worker of pool2 itself: when a call
\* does not return ("hang"), pool2.map never gives its result and main()
\* stays in the loop of line 330.
CoreCheck ==
  /\ probePc = "core"
  /\ \E outs \in [1..Len(alive_list) -> {"ok", "fail", "raise", "hang"}] :
       /\ core_results' = outs
       /\ IF \E k \in 1..Len(outs) : outs[k] = "hang"
            THEN probePc' = "core_waiting" /\ UNCHANGED alive_list
            ELSE /\ probePc' = "persist"
                 /\ alive_list' = Pick(alive_list,
                                       Positions(alive_list, LAMBDA k : _core_check(outs[k])))
  /\ UNCHANGED <<probeConf, workers, calls, collected, host_success_run,
                 normVars, fsVars, storeVars, callVars, pipeVars, tailVars>>

NextProbe == WorkerStage \/ JoinFinished \/ JoinTimedOut \/ Return \/ Collect \/ CoreCheck

SpecProbe == InitProbe /\ [][NextProbe]_vars

\* The pool with its scheduling: the main thread and the threads of the
\* pools always take their next step, so a join ends when its thread has
\* ended or when its ten seconds have passed, a call returns, the results
\* are collected and stage 3 is started.  Nothing makes a probe return:
\* WorkerStage has no fairness.
SpecProbeLive ==
  /\ InitProbe /\ [][NextProbe]_vars
  /\ WF_vars(JoinFinished) /\ WF_vars(JoinTimedOut) /\ WF_vars(Return)
  /\ WF_vars(Collect) /\ WF_vars(CoreCheck)

(* ------------------------------------------------------------------ *)
(* The end of a run: streaks, check counts and the ranking             *)
(* ------------------------------------------------------------------ *)

\* The proxy list at the start: the available-proxy file of main.py, the
\* input file of main_for_iran.py.
TailAvailables ==
  { <<>>, <<TailUris[1], TailUris[3]>>, <<TailUris[1], TailUris[2], TailUris[4]>>,
    <<TailUris[4], TailUris[3], TailUris[1]>> }

\* The streak file at the start.
StreakStarts ==
  { <<>>,
    ("old" :> [streak |-> 3, last_test |-> StartTime - 10, last_success |-> StartTime - 10])
      @@ ("a" :> [streak |-> 1, last_test |-> StartTime - 5, last_success |-> StartTime - 5]) }

\* host_success_run at line 591: the hosts probed in the run, each with
\* whether a probe of it succeeded.
HostOutcomes == UNION {[S -> BOOLEAN] : S \in SUBSET {"a", "b"}}

\* .state/check_counts.json at the start.
CountStarts ==
  { <<>>,
    (TailUris[1] :> [main |-> 1, iran |-> 0]) @@ (TailUris[3] :> [main |-> 1, iran |-> 1])
      @@ (TailUris[4] :> [main |-> 0, iran |-> 2]) }

\* .state_iran/check_counts.json at the start.
IranCountStarts ==
  { <<>>, (TailUris[1] :> 1) @@ (<<"s","s",":","/","/","g","o","n","e">> :> 4) }

InitTail ==
  /\ context \in {"main", "iran"}
  /\ availableFile \in TailAvailables
  /\ dedupKey = [line \in SeqRange(TailUris) |-> get_openray_dedup_key(line)]
  /\ v2raynKey = [line \in SeqRange(TailUris) |-> get_v2rayn_connection_key(line)]
  /\ streaksFile \in (IF context = "main" THEN StreakStarts ELSE {<<>>})
  /\ countsFile \in (IF context = "main" THEN CountStarts ELSE {<<>>})
  /\ iranCountsFile \in (IF context = "iran" THEN IranCountStarts ELSE {<<>>})
  /\ preflight = "none" /\ streakSaved = FALSE /\ streakProbe = "none"
  /\ top100File = <<>> /\ iranTop100File = <<>> /\ proxies = <<>> /\ active_proxies = <<>>
  /\ host_success_run = <<>>
  /\ probeConf = <<>> /\ workers = <<>> /\ calls = <<>> /\ collected = 0 /\ alive_list = <<>>
  /\ core_results = <<>> /\ probePc = "idle"
  /\ ppc = "idle" /\ runs = 0 /\ fileBefore = <<>> /\ reval = NoRevalidation
  /\ tested_hashes = {} /\ new_uris = <<>> /\ new_hashes = <<>>
  /\ available_to_add = <<>> /\ recorded = {} /\ connHash = <<>>
  /\ textFiles = <<>> /\ binFiles = <<>>
  /\ loaded = {} /\ returned = {} /\ appended = {} /\ fromEmpty = TRUE
  /\ lastOp = "none" /\ ops = 0
  /\ NoCall /\ NormIdle

\* A run of main() up to line 589: the probes of the run leave
\* host_success_run, and time has passed.
RunProbes ==
  /\ context = "main" /\ ppc \in {"idle", "ended"} /\ runs < MaxRuns
  /\ runs' = runs + 1
  /\ preflight' = "ok"
  /\ host_success_run' \in HostOutcomes
  /\ now' = now + 1
  /\ streakSaved' = FALSE /\ streakProbe' = "none"
  /\ ppc' = "streaks"
  /\ UNCHANGED <<streaksFile, countsFile, iranCountsFile, top100File, iranTop100File, proxies,
                 active_proxies, v2raynKey, io, textBefore, binBefore, written, days_to_keep,
                 removed, availableFile, fileBefore, reval, tested_hashes, new_uris, new_hashes,
                 available_to_add, recorded, dedupKey, connHash,
                 poolVars, fsVars, storeVars, normVars>>

\* main() of main_for_iran.py (lines 477 to 511): after the connectivity
\* check the proxies of the input file are validated, successful_proxies
\* holds the reachable ones in the order their checks completed, the counts
\* are cleaned and updated and the ranking is written.
IranRun ==
  /\ context = "iran" /\ ppc = "idle" /\ runs < MaxRuns
  /\ runs' = runs + 1
  /\ \E has_internet \in BOOLEAN, reachable \in SUBSET SeqRange(availableFile) :
       \E all_proxies \in {availableFile}, successful_proxies \in Orders(reachable) :
         /\ preflight' = IF has_internet THEN "ok" ELSE "failed"
         /\ IF has_internet /\ Len(all_proxies) > 0
              THEN \E counts \in {iran_update_check_counts_for_proxies(
                                    _cleanup_check_counts(iranCountsFile, all_proxies),
                                    successful_proxies, all_proxies)} :
                     /\ iranCountsFile' = counts
                     /\ iranTop100File' = iran_write_top100_by_checks(counts, all_proxies,
                                                                      iranTop100File)
                     /\ proxies' = successful_proxies
                     /\ active_proxies' = all_proxies
              ELSE UNCHANGED <<iranCountsFile, iranTop100File, proxies, active_proxies>>
  /\ UNCHANGED <<streaksFile, streakSaved, streakProbe, countsFile, top100File, v2raynKey,
                 availableFile, ppc, fileBefore, reval, tested_hashes, new_uris, new_hashes,
                 available_to_add, recorded, dedupKey, connHash,
                 probeVars, fsVars, storeVars, callVars, normVars>>

NextTail == RunProbes \/ UpdateStreaks \/ UpdateCounts \/ IranRun

SpecTail == InitTail /\ [][NextTail]_vars

(* ------------------------------------------------------------------ *)
(* Cleaning a proxy file after a merge                                 *)
(* ------------------------------------------------------------------ *)

\* The most lines of a file to clean.
MaxLines == 4

\* The lines a file to clean is made of: two trojan lines of one connection
\* hash, a vless line, the three markers (one with blanks around it), a line
\* that is no proxy and an empty line.
CleanLines ==
  { PipeUris[1], PipeUris[2], PipeUris[3], UpdatedUpstream, <<" ">> \o MarkerLine \o <<" ">>,
    StashedChanges, <<"n","o","t"," ","a"," ","p","r","o","x","y">>, <<>> }

\* The files to clean.
CleanFiles == UNION {[1..n -> CleanLines] : n \in 0..MaxLines}

InitClean ==
  /\ connHash = [line \in {strip(l) : l \in CleanLines} |-> get_proxy_connection_hash(line)]
  /\ availableFile \in CleanFiles
  /\ ppc = "idle" /\ runs = 0 /\ fileBefore = <<>> /\ reval = NoRevalidation
  /\ tested_hashes = {} /\ new_uris = <<>> /\ new_hashes = <<>>
  /\ available_to_add = <<>> /\ recorded = {} /\ dedupKey = <<>>
  /\ StoreIdle /\ NormIdle /\ ProbeIdle /\ TailIdle

\* clean_file(file + ".backup", file): the backup keeps the lines as they
\* were and the file gets the cleaned lines.
CleanFile ==
  /\ ppc = "idle"
  /\ fileBefore' = availableFile
  /\ availableFile' = clean_file(availableFile)
  /\ ppc' = "cleaned"
  /\ UNCHANGED <<runs, reval, tested_hashes, new_uris, new_hashes, available_to_add, recorded,
                 dedupKey, connHash, fsVars, storeVars, callVars, normVars, probeVars, tailVars>>

NextClean == CleanFile

SpecClean == InitClean /\ [][NextClean]_vars

(* ------------------------------------------------------------------ *)
(* Properties of the pipeline runs                                     *)
(* ------------------------------------------------------------------ *)

\* C1: when the revalidation of a non-empty available-proxy list leaves no
\* survivor and the connectivity probe that follows fails, the revalidation
\* leaves the available-proxy file as it was.
C1_OutageKeepsAvailable ==
  (ppc = "select" /\ reval.ran /\ reval.existing > 0 /\ reval.alive = 0
     /\ ~reval.connectivity)
    => availableFile = fileBefore

\* C1, its case: two lines checked, none survived, the probe failed, and the
\* file still has its two lines.
C1_Witness ==
  /\ ppc = "select" /\ reval.ran /\ reval.existing = 2 /\ reval.alive = 0
  /\ ~reval.connectivity
  /\ Len(availableFile) = 2 /\ availableFile = fileBefore

C26_SurvivorsInFileOrder ==
  (/\ ppc = "select" /\ reval.alive # reval.existing
   /\ ~(reval.existing > 0 /\ reval.alive = 0 /\ ~reval.connectivity))
    => /\ availableFile = SelectSeq(fileBefore, LAMBDA line : line \in reval.survivors)
       /\ Len(availableFile) = reval.alive
       /\ (reval.alive = 0) => availableFile = <<>>

\* C26, its case: of two lines the second alone passed and is the file.
C26_Witness ==
  /\ ppc = "select" /\ reval.ran /\ reval.existing = 2 /\ reval.alive = 1
  /\ Len(fileBefore) = 2 /\ availableFile = <<fileBefore[2]>>

\* C26, its other case: both lines failed while the connectivity probe
\* succeeded, and the file is empty.
C26_WitnessAllFailed ==
  /\ ppc = "select" /\ reval.ran /\ reval.existing = 2 /\ reval.alive = 0
  /\ reval.connectivity /\ Len(fileBefore) = 2 /\ availableFile = <<>>

\* C27: a run whose pre-flight connectivity probe fails ends there, with
\* return 2, and writes nothing: the available-proxy file, the tested
\* segments, the streak file, the check-count file and the ranking file are
\* what they were.
C27_FailedPreflightWritesNothing ==
  [][preflight' = "failed" =>
       /\ ppc' = "aborted"
       /\ UNCHANGED <<availableFile, textFiles, binFiles, streaksFile, countsFile,
                      top100File>>]_vars

\* C27, its case: the first run has written the five files, and the second
\* run has ended at its failed pre-flight probe.
C27_Witness ==
  /\ ppc = "aborted" /\ preflight = "failed" /\ runs = 2
  /\ availableFile # <<>> /\ binFiles # <<>> /\ streaksFile # <<>>
  /\ countsFile # <<>> /\ top100File # <<>>

\* No two lines of the file have the same dedup key.
NoTwoWithSameKey(file) ==
  \A i, j \in 1..Len(file) : i # j => dedupKey[file[i]] # dedupKey[file[j]]

\* C33: a step of a pipeline run that starts from an available-proxy file
\* without two lines of one dedup key leaves such a file; so from such a file
\* every sequence of runs keeps the dedup keys of the file distinct.
C33_DedupKeysStayUnique ==
  [][NoTwoWithSameKey(availableFile) => NoTwoWithSameKey(availableFile')]_vars

\* A run has appended a reachable URI and has held back another one, whose
\* dedup key a line of the file had.
C33_Witness ==
  /\ ppc = "record" /\ NoTwoWithSameKey(availableFile)
  /\ \E i \in 1..Len(available_to_add) :
       /\ _set_remark(available_to_add[i], <<"[","O","p","e","n","R","a","y","]">>) \in SeqRange(availableFile)
       /\ _set_remark(available_to_add[i], <<"[","O","p","e","n","R","a","y","]">>) \notin SeqRange(fileBefore)
  /\ \E i \in 1..Len(available_to_add) :
       /\ \E j \in 1..Len(fileBefore) :
            /\ fileBefore[j] \in SeqRange(availableFile)
            /\ dedupKey[fileBefore[j]] = dedupKey[available_to_add[i]]
            /\ fileBefore[j] # _set_remark(available_to_add[i], <<"[","O","p","e","n","R","a","y","]">>)
       /\ _set_remark(available_to_add[i], <<"[","O","p","e","n","R","a","y","]">>) \notin SeqRange(availableFile)

\* Line i of the file repeats the dedup key of an earlier line.
RepeatsEarlierKey(file, i) == \E j \in 1..(i - 1) : dedupKey[file[j]] = dedupKey[file[i]]

\* C39: revalidation removes a line of the available-proxy file only if the
\* line was given to the probe in this run and did not pass, or if it repeats
\* the dedup key of an earlier line.
C39_OnlyFailedOrRepeatedRemoved ==
  [][ppc = "revalidate" =>
       \A i \in 1..Len(availableFile) :
         availableFile[i] \notin SeqRange(availableFile') =>
           \/ availableFile[i] \in reval'.probed \ reval'.survivors
           \/ RepeatsEarlierKey(availableFile, i)]_vars

\* The same for the lines that have a host.
C39_LinesWithHost ==
  [][ppc = "revalidate" =>
       \A i \in items_of(availableFile) :
         availableFile[i] \notin SeqRange(availableFile') =>
           \/ availableFile[i] \in reval'.probed \ reval'.survivors
           \/ RepeatsEarlierKey(availableFile, i)]_vars

(* ------------------------------------------------------------------ *)
(* Properties of the candidate checks                                  *)
(* ------------------------------------------------------------------ *)

\* Item i has put neither its URI into alive nor set the flag of its host:
\* the URI is not in alive, and when the flag of the host is set another
\* item of that host was taken as reachable.
AddedNothing(i) ==
  LET u == probeConf.items[i][1]
      h == probeConf.items[i][2]
  IN /\ \A k \in 1..Len(alive_list) : alive_list[k] # u
     /\ (h \in DOMAIN host_success_run /\ host_success_run[h]) =>
          \E j \in 1..collected :
            j # i /\ probeConf.items[j][2] = h /\ calls[j].returned = "ok"

\* C21 as stated: a candidate whose thread had not ended when join(10.0)
\* timed out is reported as failed, and adds nothing, whatever its thread
\* does later.
C21_ExpiredIsFailed ==
  \A i \in 1..Len(calls) :
    calls[i].join = "timed_out" =>
      /\ calls[i].returned \in {"none", "fail"}
      /\ AddedNothing(i)

\* C21, made precise: a candidate whose thread is still alive when the call
\* tests it after join(10.0) is reported as failed, and adds nothing,
\* whatever its thread does later.
C21_AbandonedIsFailed ==
  \A i \in 1..Len(calls) :
    calls[i].abandoned =>
      /\ calls[i].returned = "fail"
      /\ AddedNothing(i)

\* C21, its case: the thread of an abandoned candidate has ended with
\* success after the call returned, every result has been taken, and the run
\* goes on.
C21_Witness ==
  /\ probePc = "persist" /\ collected = Len(calls)
  /\ \E i \in 1..Len(calls) :
       /\ calls[i].abandoned /\ calls[i].join = "timed_out"
       /\ workers[i].pc = "done" /\ workers[i].result = "ok"
       /\ calls[i].returned = "fail"

\* What the stages of item i by themselves give: failed when a stage raised
\* or when ping, connect or the protocol probe failed, reachable otherwise
\* (a URI without a port to extract passes on its ping).
OwnOutcome(i) ==
  LET att == workers[i].attempts
  IN IF \E k \in 1..Len(att) : att[k][2] = "raise" THEN "fail"
     ELSE IF \E k \in 1..Len(att) :
               att[k][1] \in {"ping", "connect", "probe"} /\ att[k][2] = "fail" THEN "fail"
     ELSE "ok"

\* The URIs of the items taken so far whose call reported them reachable,
\* in the order of the items.
Passed ==
  Pick([i \in 1..Len(calls) |-> probeConf.items[i][1]],
       Positions(calls, LAMBDA i : i <= collected /\ calls[i].returned = "ok"))

\* C22: an exception in a stage of one candidate fails that candidate only:
\* no exception leaves the pool, every candidate that finished in time is
\* reported with the outcome of its own stages, the reachable list holds
\* exactly the candidates reported reachable, and an exception in the deep
\* validation of one of them takes only that one out of the list.
C22_FailureStaysLocal ==
  /\ probePc # "crashed"
  /\ \A i \in 1..Len(calls) :
       calls[i].returned # "none" =>
         calls[i].returned = IF calls[i].abandoned THEN "fail" ELSE OwnOutcome(i)
  /\ probePc \in {"pool", "core"} => alive_list = Passed
  /\ probePc = "persist" =>
       /\ collected = Len(calls)
       /\ alive_list = IF core_results = <<>> THEN Passed
                       ELSE Pick(Passed, Positions(Passed, LAMBDA k : core_results[k] = "ok"))

\* C22, its case: one candidate had an exception in a stage and is failed,
\* another one is reported reachable and is in the list, and the run is at
\* the point of persistence.
C22_Witness ==
  /\ probePc = "persist"
  /\ \E i, j \in 1..Len(calls) :
       /\ i # j
       /\ \E k \in 1..Len(workers[i].attempts) : workers[i].attempts[k][2] = "raise"
       /\ ~calls[i].abandoned /\ calls[i].returned = "fail"
       /\ calls[j].returned = "ok"
       /\ \E k \in 1..Len(alive_list) : alive_list[k] = probeConf.items[j][1]

\* C23: for a connection-oriented URI with a port the stages run in the
\* order ping, connect, protocol probe, each one only after the one before
\* it passed: nothing is attempted after a failed ping or a failed connect,
\* the protocol probe is attempted only when it is enabled, and the URI is
\* reachable only when every stage that applies has passed.
C23_StagesInOrder ==
  \A i \in 1..Len(workers) :
    LET att == workers[i].attempts
        u == probeConf.items[i][1]
        full == <<<<"ping", "ok">>, <<"port", "ok">>, <<"connect", "ok">>>>
                  \o (IF probeConf.enable_stage2 THEN <<<<"probe", "ok">>>> ELSE <<>>)
    IN /\ \A k \in 1..Len(att) :
            /\ att[k][1] = "connect" =>
                  \E j \in 1..(k - 1) : att[j] = <<"ping", "ok">>
            /\ att[k][1] = "probe" =>
                  /\ probeConf.enable_stage2
                  /\ \E j \in 1..(k - 1) : att[j] = <<"connect", "ok">>
            /\ att[k] \in {<<"ping", "fail">>, <<"connect", "fail">>} => k = Len(att)
       /\ (/\ workers[i].result = "ok"
           /\ IsConnectionOriented(u)
           /\ \E k \in 1..Len(att) : att[k] = <<"port", "ok">>) => att = full

\* C23, its case: with the protocol probe enabled a connection-oriented URI
\* has passed ping, connect and the probe and is in the reachable list, and
\* another candidate stopped at a failed connect.
C23_Witness ==
  /\ probeConf.enable_stage2
  /\ \E i, j \in 1..Len(workers) :
       /\ IsConnectionOriented(probeConf.items[i][1])
       /\ Len(workers[i].attempts) = 4 /\ workers[i].result = "ok"
       /\ \E k \in 1..Len(alive_list) : alive_list[k] = probeConf.items[i][1]
       /\ workers[j].pc = "done" /\ workers[j].result = "fail"
       /\ workers[j].attempts[Len(workers[j].attempts)] = <<"connect", "fail">>

\* C32: with deep validation enabled and the engine configured, one stage
\* gives at most STAGE3_MAX survivors to validate_with_v2ray_core.
C32_CoreSubsetBounded == Len(core_results) <= STAGE3_MAX

\* The candidates of host h that are in the final list of reachable URIs.
ConfirmedOf(h) ==
  {i \in 1..Len(probeConf.items) :
     probeConf.items[i][2] = h /\ probeConf.items[i][1] \in SeqRange(alive_list)}

\* C34: when the validation of a run has ended, after every enabled stage,
\* the success flag of a host is true exactly if one of its candidates is in
\* the final list of reachable URIs.
C34_FlagIffConfirmed ==
  probePc = "persist" =>
    \A h \in DOMAIN host_success_run : host_success_run[h] <=> ConfirmedOf(h) # {}

\* The same without deep validation.
C34_FlagIffConfirmedNoCore ==
  probePc = "persist" /\ ~probeConf.enable_stage3 =>
    \A h \in DOMAIN host_success_run : host_success_run[h] <=> ConfirmedOf(h) # {}

\* C35: every validation stage ends, also when a probe call never returns:
\* each candidate gets its outcome and the run goes on to persist its results.
C35_ValidationEnds == <>(probePc = "persist")

\* The same for the pool of ping, connect and the protocol probe: the results
\* of all candidates are collected.
C35_PoolEnds == <>(probePc # "pool" /\ collected = Len(calls))

(* ------------------------------------------------------------------ *)
(* Properties of the end of a run                                      *)
(* ------------------------------------------------------------------ *)

\* C24: in a run that updates the streaks, every host probed in the run
\* gets lastTestAt = now; with a successful probe its streak grows by
\* exactly one and lastSuccessAt = now, without one its streak is 0 and
\* lastSuccessAt stays; the record of a host that was not probed stays as it
\* was, and no record appears for such a host.
C24_StreaksFollowProbes ==
  [][(ppc = "streaks" /\ streakSaved') =>
       /\ \A h \in DOMAIN host_success_run :
            /\ h \in DOMAIN streaksFile'
            /\ streaksFile'[h].last_test = now
            /\ LET streak == IF h \in DOMAIN streaksFile THEN streaksFile[h].streak ELSE 0
                   last_success ==
                     IF h \in DOMAIN streaksFile THEN streaksFile[h].last_success ELSE 0
               IN IF host_success_run[h]
                    THEN /\ streaksFile'[h].streak = streak + 1
                         /\ streaksFile'[h].last_success = now
                    ELSE /\ streaksFile'[h].streak = 0
                         /\ streaksFile'[h].last_success = last_success
       /\ \A h \in (DOMAIN streaksFile \cup DOMAIN streaksFile') \ DOMAIN host_success_run :
            /\ h \in DOMAIN streaksFile /\ h \in DOMAIN streaksFile'
            /\ streaksFile'[h] = streaksFile[h]]_vars

\* C24, its case: the streaks were updated in a run that probed a without
\* success and b with success and did not probe old: the streak of a is
\* reset and keeps its last success, b has its first success, and the record
\* of old is the one of the start.
C24_Witness ==
  /\ ppc = "counts" /\ streakSaved
  /\ DOMAIN host_success_run = {"a", "b"}
  /\ ~host_success_run["a"] /\ host_success_run["b"]
  /\ DOMAIN streaksFile = {"old", "a", "b"}
  /\ streaksFile["a"] = [streak |-> 0, last_test |-> now, last_success |-> StartTime - 5]
  /\ streaksFile["b"] = [streak |-> 1, last_test |-> now, last_success |-> now]
  /\ streaksFile["old"].streak = 3 /\ streaksFile["old"].last_test = StartTime - 10

\* C25: when no host had a success in the run and the connectivity probe of
\* the streak step fails, no streak record changes and the streak file is
\* not written.
C25_OutageKeepsStreaks ==
  [][(/\ ppc = "streaks"
      /\ \A h \in DOMAIN host_success_run : ~host_success_run[h]
      /\ streakProbe' = "failed")
       => (streaksFile' = streaksFile /\ ~streakSaved')]_vars

\* C25, its case: a host with a streak was probed without success, the
\* connectivity probe failed, and the streak is still there.
C25_Witness ==
  /\ ppc = "counts" /\ streakProbe = "failed" /\ ~streakSaved
  /\ "a" \in DOMAIN host_success_run /\ ~host_success_run["a"]
  /\ "a" \in DOMAIN streaksFile /\ streaksFile["a"].streak = 1

\* C28: the ranking file holds the first top_limit of the active proxies
\* ordered by main counter descending, then iran counter descending, then
\* position in the list given; main_for_iran.py has the one counter of its
\* own file. A proxy with k proxies ahead of it in that order is line k + 1,
\* so proxies with equal counters are in the order of the list and the file
\* is a function of the list and the counts.
C28_Top100Ranked ==
  Len(active_proxies) > 0 =>
    LET Main(i) ==
          IF context = "main"
            THEN IF active_proxies[i] \in DOMAIN countsFile
                   THEN countsFile[active_proxies[i]].main ELSE 0
            ELSE IF active_proxies[i] \in DOMAIN iranCountsFile
                   THEN iranCountsFile[active_proxies[i]] ELSE 0
        Iran(i) ==
          IF context = "main" /\ active_proxies[i] \in DOMAIN countsFile
            THEN countsFile[active_proxies[i]].iran ELSE 0
        Ahead(i) ==
          Cardinality({j \in 1..Len(active_proxies) :
                         \/ Main(j) > Main(i)
                         \/ Main(j) = Main(i) /\ Iran(j) > Iran(i)
                         \/ Main(j) = Main(i) /\ Iran(j) = Iran(i) /\ j < i})
        file == IF context = "main" THEN top100File ELSE iranTop100File
    IN /\ Len(file) = IF Len(active_proxies) > top_limit THEN top_limit ELSE Len(active_proxies)
       /\ \A i \in 1..Len(active_proxies) :
            Ahead(i) < top_limit => file[Ahead(i) + 1] = active_proxies[i]

\* C28, its case: of two proxies with equal main counters the second of the
\* list has the higher iran counter and is the first line.
C28_Witness ==
  /\ context = "main"
  /\ active_proxies = <<TailUris[1], TailUris[3]>>
  /\ countsFile[TailUris[1]].main = countsFile[TailUris[3]].main
  /\ top100File = <<TailUris[3], TailUris[1]>>

\* C28, another case: three proxies with equal counters, of which the first
\* two of the list are the file, in the order of the list.
C28_WitnessTies ==
  /\ context = "main"
  /\ active_proxies = <<TailUris[4], TailUris[3], TailUris[1]>>
  /\ \A i \in {1, 3, 4} : countsFile[TailUris[i]] = [main |-> 1, iran |-> 0]
  /\ top100File = <<TailUris[4], TailUris[3]>>

\* C29: in a run of main.py two proxies of the ranking file that have equal
\* counters are in the order they have in the available-proxy file.
C29_TiesInFileOrder ==
  (context = "main" /\ Len(active_proxies) > 0) =>
    LET FilePosition(p) == CHOOSE k \in 1..Len(availableFile) : availableFile[k] = p
        Counts(p) == IF p \in DOMAIN countsFile THEN countsFile[p] ELSE NoCounts
    IN \A i, j \in 1..Len(top100File) :
         (i < j /\ Counts(top100File[i]) = Counts(top100File[j]))
           => FilePosition(top100File[i]) < FilePosition(top100File[j])

\* C30: the update of the check counts, in main.py and in main_for_iran.py,
\* adds exactly one to the counter of the first proxy of every class of
\* get_openray_dedup_key among the proxies given, and leaves every other
\* counter as it was; so two proxies given with different dedup keys are
\* both counted.
C30_CountsByDedupKey ==
  [][LET given == proxies'
         First(i) == \A j \in 1..(i - 1) : dedupKey[given[j]] # dedupKey[given[i]]
         firsts == {given[i] : i \in {k \in 1..Len(given) : First(k)}}
         Added(p) == IF p \in firsts THEN 1 ELSE 0
     IN /\ (context = "main" /\ ppc = "counts" /\ Len(availableFile) > 0) =>
             \A p \in DOMAIN countsFile' \cup firsts :
               /\ p \in DOMAIN countsFile'
               /\ countsFile'[p].main =
                    (IF p \in DOMAIN countsFile THEN countsFile[p].main ELSE 0) + Added(p)
               /\ countsFile'[p].iran =
                    IF p \in DOMAIN countsFile THEN countsFile[p].iran ELSE 0
        /\ (context = "iran" /\ runs' # runs /\ preflight' = "ok"
              /\ Len(availableFile) > 0) =>
             \A p \in DOMAIN iranCountsFile' \cup firsts :
               /\ p \in DOMAIN iranCountsFile'
               /\ iranCountsFile'[p] =
                    (IF p \in DOMAIN iranCountsFile THEN iranCountsFile[p] ELSE 0) + Added(p)]_vars

\* C31: after a run that updated the check counts, in main.py and in
\* main_for_iran.py, the check-count file has entries only for proxies of the
\* active list of that run.
C31_NoStaleCounts ==
  Len(active_proxies) > 0 =>
    DOMAIN (IF context = "main" THEN countsFile ELSE iranCountsFile) \subseteq
      SeqRange(active_proxies)

\* C37: every record of the streak file has streak >= 0 and
\* last_success <= last_test, and a record with streak > 0 has
\* last_success = last_test.
C37_StreakRecordsConsistent ==
  \A h \in DOMAIN streaksFile :
    /\ streaksFile[h].streak >= 0
    /\ streaksFile[h].last_success <= streaksFile[h].last_test
    /\ streaksFile[h].streak > 0 => streaksFile[h].last_success = streaksFile[h].last_test

\* A run has saved the streaks, with a host that failed after an earlier
\* success and a host with two successes in a row.
C37_Witness ==
  /\ streakSaved
  /\ \E h \in DOMAIN streaksFile :
       /\ streaksFile[h].streak = 0
       /\ 0 < streaksFile[h].last_success
       /\ streaksFile[h].last_success < streaksFile[h].last_test
  /\ \E h \in DOMAIN streaksFile :
       streaksFile[h].streak >= 2 /\ streaksFile[h].last_test > StartTime

\* C36: the check counts a run of main_for_iran.py writes are the same for
\* every order in which the checks of the successful proxies complete.
C36_CountsIgnoreCompletionOrder ==
  [][(context = "iran" /\ runs' # runs /\ preflight' = "ok" /\ Len(availableFile) > 0) =>
       \A order \in Orders(SeqRange(proxies')) :
         iranCountsFile' =
           iran_update_check_counts_for_proxies(
             _cleanup_check_counts(iranCountsFile, availableFile), order, availableFile)]_vars

(* ------------------------------------------------------------------ *)
(* Claims on clean_file                                                *)
(* ------------------------------------------------------------------ *)

\* Line i of the file is a marker line.
IsMarkerAt(lines, i) == strip(lines[i]) \in {UpdatedUpstream, MarkerLine, StashedChanges}

\* Line i is enclosed in a conflict block: an opening marker comes before it
\* and no closing marker lies between them.
InConflictBlock(lines, i) ==
  \E j \in 1..(i - 1) :
    /\ strip(lines[j]) = UpdatedUpstream
    /\ \A k \in (j + 1)..(i - 1) : strip(lines[k]) # StashedChanges

\* The markers of the file are those of whole conflict blocks: opening,
\* middle and closing marker, in this order, block after block.
WholeBlocks(lines) ==
  LET markers == SelectSeq([i \in 1..Len(lines) |-> strip(lines[i])],
                           LAMBDA l : l \in {UpdatedUpstream, MarkerLine, StashedChanges})
  IN /\ Len(markers) % 3 = 0
     /\ \A k \in 1..Len(markers) :
          markers[k] = <<UpdatedUpstream, MarkerLine, StashedChanges>>[((k - 1) % 3) + 1]

\* The cleaned file has no marker line and no line that only a conflict
\* block of the file had.
ConflictsRemoved ==
  /\ \A k \in 1..Len(availableFile) :
       availableFile[k] \notin {UpdatedUpstream, MarkerLine, StashedChanges}
  /\ \A i \in 1..Len(fileBefore) :
       (InConflictBlock(fileBefore, i) /\ strip(fileBefore[i]) \in SeqRange(availableFile)) =>
         \E j \in 1..Len(fileBefore) :
           /\ ~InConflictBlock(fileBefore, j) /\ ~IsMarkerAt(fileBefore, j)
           /\ strip(fileBefore[j]) = strip(fileBefore[i])

\* C40: clean_file removes the marker lines and the text enclosed in a
\* conflict block, and the cleaned file has, for every valid proxy line
\* outside the conflict blocks (the lines after a closing marker included), a
\* line of the same connection hash.
C40_KeepsLinesOutsideBlocks ==
  (ppc = "cleaned" /\ WholeBlocks(fileBefore)) =>
    /\ ConflictsRemoved
    /\ \A i \in 1..Len(fileBefore) :
         (/\ ~IsMarkerAt(fileBefore, i) /\ ~InConflictBlock(fileBefore, i)
          /\ is_valid_proxy(strip(fileBefore[i]))) =>
           \E k \in 1..Len(availableFile) :
             connHash[availableFile[k]] = connHash[strip(fileBefore[i])]

\* The part of C40 on what is removed.
C40_ConflictsRemoved == ppc = "cleaned" => ConflictsRemoved

\* The part of C40 on what is kept, for a file without marker lines.
C40_KeepsWithoutMarkers ==
  (ppc = "cleaned" /\ \A i \in 1..Len(fileBefore) : ~IsMarkerAt(fileBefore, i)) =>
    \A i \in 1..Len(fileBefore) :
      is_valid_proxy(strip(fileBefore[i])) =>
        \E k \in 1..Len(availableFile) :
          connHash[availableFile[k]] = connHash[strip(fileBefore[i])]

====
